---- MODULE Spec2Model ----
(***************************************************************************)
(* Model of the per-city detail view of gsv-tracker (city.js): the         *)
(* streaming load of the panorama table (loadData, processRows), the       *)
(* progress bar, and the selection handlers of the legend, the temporal    *)
(* chart and the map background.                                           *)
(*                                                                         *)
(* Text is a sequence of atoms.  Three atoms are structural (the quote,    *)
(* the comma and the newline); every other atom is an unbreakable piece    *)
(* of field text.  A string value is the sequence of its atoms.            *)
(***************************************************************************)
EXTENDS Integers, Sequences, FiniteSets, TLC

\* ------------------------------------------------------------------------
\* Bounds of the model
\* ------------------------------------------------------------------------
MaxRows == 2

\* ------------------------------------------------------------------------
\* Text helpers (String.prototype.indexOf / lastIndexOf / slice / trim)
\* ------------------------------------------------------------------------
QUOTE == "\""
COMMA == ","
NEWLINE == "\n"

\* 1-based index of the first c in s at or after position from; 0 if absent
\* (indexOf's -1).
RECURSIVE IndexOf(_, _, _)
IndexOf(s, c, from) ==
  IF from > Len(s) THEN 0
  ELSE IF s[from] = c THEN from
  ELSE IndexOf(s, c, from + 1)

\* 1-based index of the last c in s at or before position upto; 0 if absent.
RECURSIVE LastIndexOfFrom(_, _, _)
LastIndexOfFrom(s, c, upto) ==
  IF upto < 1 THEN 0
  ELSE IF s[upto] = c THEN upto
  ELSE LastIndexOfFrom(s, c, upto - 1)

LastIndexOf(s, c) == LastIndexOfFrom(s, c, Len(s))

\* s.slice(a - 1, b) in 1-based inclusive positions a..b.
Slice(s, a, b) == IF a > b THEN <<>> ELSE SubSeq(s, a, b)

\* The only whitespace atom of the model is the newline.
IsBlank(s) == \A i \in 1..Len(s) : s[i] = NEWLINE

\* s.trimEnd()
RECURSIVE TrimEnd(_)
TrimEnd(s) ==
  IF s # <<>> /\ s[Len(s)] = NEWLINE THEN TrimEnd(SubSeq(s, 1, Len(s) - 1)) ELSE s

\* ------------------------------------------------------------------------
\* Values of parsed fields (JavaScript values after dynamicTyping)
\* ------------------------------------------------------------------------
Str(s) == [t |-> "str", s |-> s]
Num(n) == [t |-> "num", n |-> n]
Null == [t |-> "null"]
Undefined == [t |-> "undefined"]
Arr(a) == [t |-> "array", a |-> a]

DigitAtoms == <<"0", "1", "2", "3", "4", "5", "6", "7", "8", "9">>

IsDigit(a) == \E i \in 1..Len(DigitAtoms) : DigitAtoms[i] = a

DigitValue(a) == (CHOOSE i \in 1..Len(DigitAtoms) : DigitAtoms[i] = a) - 1

\* parseFloat of a string of digits.
RECURSIVE ParseFloat(_)
ParseFloat(s) ==
  IF s = <<>> THEN 0
  ELSE 10 * ParseFloat(SubSeq(s, 1, Len(s) - 1)) + DigitValue(s[Len(s)])

\* PapaParse parseDynamic: numeric text becomes a number, the empty string
\* becomes null, any other text stays a string.
ParseDynamic(s) ==
  IF s = <<>> THEN Null
  ELSE IF \A i \in 1..Len(s) : IsDigit(s[i]) THEN Num(ParseFloat(s))
  ELSE Str(s)

\* ------------------------------------------------------------------------
\* Papa.parse(text, {header: true, dynamicTyping: true, skipEmptyLines: true})
\* ------------------------------------------------------------------------

\* Replace each escaped quote (two quotes) by one quote.
RECURSIVE Unescape(_)
Unescape(s) ==
  IF s = <<>> THEN <<>>
  ELSE IF Len(s) >= 2 /\ s[1] = QUOTE /\ s[2] = QUOTE
    THEN <<QUOTE>> \o Unescape(SubSeq(s, 3, Len(s)))
  ELSE <<s[1]>> \o Unescape(Tail(s))

\* The search for the quote that closes a quoted field; quoteSearch is the
\* position searched from (exclusive).
RECURSIVE ClosingQuote(_, _)
ClosingQuote(input, quoteSearch) ==
  LET q == IndexOf(input, QUOTE, quoteSearch + 1) IN
  IF q = 0 THEN [kind |-> "missing", at |-> 0]
  ELSE IF q = Len(input) THEN [kind |-> "eof", at |-> q]
  ELSE IF input[q + 1] = QUOTE THEN ClosingQuote(input, q + 1)
  ELSE IF input[q + 1] = COMMA THEN [kind |-> "delim", at |-> q]
  ELSE IF input[q + 1] = NEWLINE THEN [kind |-> "newline", at |-> q]
  ELSE ClosingQuote(input, q + 1)

\* The parser loop: cursor is the start of the next field, row the fields of
\* the current row, data the rows saved so far.
RECURSIVE ParseFrom(_, _, _, _)
ParseFrom(input, cursor, row, data) ==
  IF cursor <= Len(input) /\ input[cursor] = QUOTE
  THEN LET c == ClosingQuote(input, cursor)
           value == Unescape(Slice(input, cursor + 1, c.at - 1))
       IN CASE c.kind = "missing" ->
                 Append(data, Append(row, Slice(input, cursor + 1, Len(input))))
            [] c.kind = "eof" -> Append(data, Append(row, value))
            [] c.kind = "delim" -> ParseFrom(input, c.at + 2, Append(row, value), data)
            [] c.kind = "newline" ->
                 ParseFrom(input, c.at + 2, <<>>, Append(data, Append(row, value)))
  ELSE LET nextDelim == IndexOf(input, COMMA, cursor)
           nextNewline == IndexOf(input, NEWLINE, cursor)
       IN IF nextDelim # 0 /\ (nextDelim < nextNewline \/ nextNewline = 0)
          THEN ParseFrom(input, nextDelim + 1,
                         Append(row, Slice(input, cursor, nextDelim - 1)), data)
          ELSE IF nextNewline # 0
          THEN ParseFrom(input, nextNewline + 1, <<>>,
                         Append(data, Append(row, Slice(input, cursor, nextNewline - 1))))
          ELSE Append(data, Append(row, Slice(input, cursor, Len(input))))

ParseRows(input) == IF input = <<>> THEN <<>> ELSE ParseFrom(input, 1, <<>>, <<>>)

\* skipEmptyLines: a row that is one empty field is dropped.
TestEmptyLine(row) == Len(row) = 1 /\ row[1] = <<>>

SkipEmptyLines(data) == SelectSeq(data, LAMBDA row : ~TestEmptyLine(row))

ParsedExtra == <<"__parsed_extra">>

\* One data row as an object keyed by the header fields; a field beyond the
\* header goes to __parsed_extra, a missing one is left undefined.
RowObject(fields, row) ==
  LET named == {j \in 1..Len(row) : j <= Len(fields)}
      extra == {j \in 1..Len(row) : j > Len(fields)}
      keys == {fields[j] : j \in named} \cup (IF extra = {} THEN {} ELSE {ParsedExtra})
      last(k) == CHOOSE j \in named : fields[j] = k /\ \A i \in named : fields[i] = k => i <= j
  IN [k \in keys |->
        IF k = ParsedExtra /\ extra # {}
        THEN Arr([i \in 1..(Len(row) - Len(fields)) |-> ParseDynamic(row[Len(fields) + i])])
        ELSE ParseDynamic(row[last(k)])]

\* result.data of Papa.parse with header, dynamicTyping and skipEmptyLines.
PapaParse(input) ==
  LET data == SkipEmptyLines(ParseRows(input)) IN
  IF data = <<>> THEN <<>>
  ELSE [i \in 1..(Len(data) - 1) |-> RowObject(data[1], data[i + 1])]

\* row.name
Get(row, name) == IF <<name>> \in DOMAIN row THEN row[<<name>>] ELSE Undefined

\* ------------------------------------------------------------------------
\* Dates (new Date(value), getTime, getFullYear, toISOString, toDateString)
\* ------------------------------------------------------------------------

\* The date strings of the model that the Date constructor can parse.
DateTable ==
  << [iso |-> "1970-01-01", time |-> 19700101],
     [iso |-> "2020-01-01", time |-> 20200101],
     [iso |-> "2021-06-01", time |-> 20210601] >>

InvalidDate == [valid |-> FALSE, iso |-> "Invalid Date", time |-> 0]

EpochDate == [valid |-> TRUE, iso |-> DateTable[1].iso, time |-> DateTable[1].time]

\* new Date(value): a known date string parses, a number (and null, which
\* counts as 0) is a time stamp of the epoch day, anything else is an
\* invalid date.
NewDate(value) ==
  IF value.t \in {"num", "null"} THEN EpochDate
  ELSE IF value.t = "str" /\ \E i \in 1..Len(DateTable) : value.s = <<DateTable[i].iso>>
  THEN LET i == CHOOSE j \in 1..Len(DateTable) : value.s = <<DateTable[j].iso>>
       IN [valid |-> TRUE, iso |-> DateTable[i].iso, time |-> DateTable[i].time]
  ELSE InvalidDate

\* The year of the date in universal time, which is the year component of
\* toISOString().
GetUTCFullYear(date) == date.time \div 10000

\* What Date.prototype.getTimezoneOffset() returns on the client: universal
\* time minus local time, in minutes.
VARIABLE timezoneOffset

\* The offsets of the model: one hour east of Greenwich, Greenwich, eight
\* hours west.
Zones == {-60, 0, 480}

\* getFullYear(): the year in local time.  The dates of the model are
\* midnights of universal time (a year-month-day string is parsed as
\* universal time), so west of Greenwich the local day is the day before,
\* and the local year of a first of January is the year before.
GetFullYear(date) ==
  IF timezoneOffset > 0 /\ date.time % 10000 = 101
  THEN GetUTCFullYear(date) - 1
  ELSE GetUTCFullYear(date)

\* ------------------------------------------------------------------------
\* JavaScript truthiness and isNaN of a parsed value
\* ------------------------------------------------------------------------
Falsy(value) ==
  \/ value.t = "undefined"
  \/ value.t = "null"
  \/ value.t = "num" /\ value.n = 0
  \/ value.t = "str" /\ value.s = <<>>

\* isNaN(value) as Leaflet's LatLng constructor applies it to a coordinate.
IsNaN(value) == value.t \in {"str", "undefined", "array"}

OK == Str(<<"O", "K">>)
Google == Str(<<"© Google">>)

\* ------------------------------------------------------------------------
\* processRows
\* ------------------------------------------------------------------------

\* All markers of all year buckets (Object.values(markersByYear).flat()).
MarkerCount(byYear) ==
  LET RECURSIVE Sum(_)
      Sum(ys) == IF ys = {} THEN 0
                 ELSE LET y == CHOOSE z \in ys : TRUE
                      IN Len(byYear[y]) + Sum(ys \ {y})
  IN Sum(DOMAIN byYear)

\* The filter without its test of processedPanos.
RowFilteredNoDedup(row, processedPanos) ==
  \/ Get(row, "status") # OK
  \/ Get(row, "copyright_info") # Google
  \/ Falsy(Get(row, "capture_date"))
  \/ Falsy(Get(row, "pano_id"))
  \/ Falsy(Get(row, "pano_lat"))
  \/ Falsy(Get(row, "pano_lon"))

\* The filter at the head of the loop body: TRUE when the row is skipped.
RowFiltered(row, processedPanos) ==
  \/ Get(row, "status") # OK
  \/ Get(row, "copyright_info") # Google
  \/ Falsy(Get(row, "capture_date"))
  \/ Falsy(Get(row, "pano_id"))
  \/ Falsy(Get(row, "pano_lat"))
  \/ Falsy(Get(row, "pano_lon"))
  \/ Get(row, "pano_id") \in processedPanos

\* L.circleMarker([lat, lon], {...}).addTo(map) with its default style.
NewMarker(n, row, captureDate) ==
  [n |-> n, panoId |-> Get(row, "pano_id"), captureDate |-> captureDate,
   fillOpacity |-> 80, radius |-> 3, onMap |-> TRUE]

\* One iteration of the loop of processRows on the per-parse state st.
\* st.threw is set when marker creation throws (Leaflet rejects a
\* coordinate that is not a number); the rest of the batch is then not run.
ProcessRow(st, row) ==
  IF st.threw THEN st
  ELSE IF RowFiltered(row, st.processedPanos) THEN st
  ELSE LET id == Get(row, "pano_id")
           added == [st EXCEPT !.processedPanos = @ \cup {id}]
           captureDate == NewDate(Get(row, "capture_date"))
           year == GetFullYear(captureDate)
           dateStr == captureDate.iso
           counted == [added EXCEPT !.temporalMap =
                         IF dateStr \in DOMAIN @
                         THEN [@ EXCEPT ![dateStr] = @ + 1]
                         ELSE @ @@ (dateStr :> 1)]
           marker == NewMarker(MarkerCount(st.markersByYear) + 1, row, captureDate)
       IN IF ~captureDate.valid THEN added
          ELSE IF IsNaN(Get(row, "pano_lat")) \/ IsNaN(Get(row, "pano_lon"))
          THEN [counted EXCEPT !.threw = TRUE]
          ELSE [counted EXCEPT
                  !.markersByYear =
                     IF year \in DOMAIN @
                     THEN [@ EXCEPT ![year] = Append(@, marker)]
                     ELSE @ @@ (year :> <<marker>>),
                  !.validPoints =
                     Append(@, <<Get(row, "pano_lat"), Get(row, "pano_lon")>>)]

\* The loop run from the last row of the batch to the first.
RECURSIVE ProcessRowsBackwards(_, _)
ProcessRowsBackwards(st, rows) ==
  IF rows = <<>> THEN st
  ELSE ProcessRow(ProcessRowsBackwards(st, Tail(rows)), Head(rows))

\* for (const row of rows) { ... }
RECURSIVE ProcessRows(_, _)
ProcessRows(st, rows) ==
  IF rows = <<>> THEN st
  ELSE ProcessRows(ProcessRow(st, Head(rows)), Tail(rows))

\* ------------------------------------------------------------------------
\* The manual read loop of loadData
\* ------------------------------------------------------------------------

\* The body of the loop that prepends the header line to the first batch
\* only.
ReadValueHeaderOnce(buffer, headerLine, value) ==
  LET buffered == buffer \o value
      lastNewline == LastIndexOf(buffered, NEWLINE)
      completeText == Slice(buffered, 1, lastNewline)
      rest == Slice(buffered, lastNewline + 1, Len(buffered))
      firstNewline == IndexOf(completeText, NEWLINE, 1)
      header == Slice(completeText, 1, firstNewline - 1)
      dataText == Slice(completeText, firstNewline + 1, Len(completeText))
  IN IF lastNewline = 0
     THEN [buffer |-> buffered, headerLine |-> headerLine, parse |-> FALSE, input |-> <<>>]
     ELSE IF headerLine = Null
     THEN [buffer |-> rest, headerLine |-> Str(header), parse |-> ~IsBlank(dataText),
           input |-> header \o <<NEWLINE>> \o dataText]
     ELSE [buffer |-> rest, headerLine |-> headerLine, parse |-> TRUE,
           input |-> completeText]

\* The body of the loop for one text fragment: the new buffer and header
\* line, and the text handed to Papa.parse (parse is FALSE when none is).
ReadValue(buffer, headerLine, value) ==
  LET buffered == buffer \o value
      lastNewline == LastIndexOf(buffered, NEWLINE)
      completeText == Slice(buffered, 1, lastNewline)
      rest == Slice(buffered, lastNewline + 1, Len(buffered))
      firstNewline == IndexOf(completeText, NEWLINE, 1)
      header == Slice(completeText, 1, firstNewline - 1)
      dataText == Slice(completeText, firstNewline + 1, Len(completeText))
  IN IF lastNewline = 0
     THEN [buffer |-> buffered, headerLine |-> headerLine, parse |-> FALSE, input |-> <<>>]
     ELSE IF headerLine = Null
     THEN IF firstNewline = 0
          THEN [buffer |-> rest, headerLine |-> Str(TrimEnd(completeText)),
                parse |-> FALSE, input |-> <<>>]
          ELSE [buffer |-> rest, headerLine |-> Str(header),
                parse |-> ~IsBlank(dataText),
                input |-> header \o <<NEWLINE>> \o dataText]
     ELSE [buffer |-> rest, headerLine |-> headerLine, parse |-> TRUE,
           input |-> headerLine.s \o <<NEWLINE>> \o completeText]

\* The flush when the reader reports done.
ReadDoneFlush(buffer, headerLine) ==
  IF ~IsBlank(buffer) /\ headerLine # Null
  THEN [parse |-> TRUE, input |-> headerLine.s \o <<NEWLINE>> \o buffer]
  ELSE [parse |-> FALSE, input |-> <<>>]

\* The rows that the read loop hands to processRows for a sequence of
\* fragments followed by done, batch after batch.
RECURSIVE FeedRows(_, _, _)
FeedRows(buffer, headerLine, fragments) ==
  IF fragments = <<>>
  THEN LET f == ReadDoneFlush(buffer, headerLine)
       IN IF f.parse THEN PapaParse(f.input) ELSE <<>>
  ELSE LET r == ReadValue(buffer, headerLine, Head(fragments))
       IN (IF r.parse THEN PapaParse(r.input) ELSE <<>>)
          \o FeedRows(r.buffer, r.headerLine, Tail(fragments))

\* ------------------------------------------------------------------------
\* Location queries: strings of characters, objects, levenshteinDistance,
\* parseLocationQuery, findBestMatchingCity
\* ------------------------------------------------------------------------
SPACE == " "

UpperCase == <<"A", "C", "E", "L", "N", "O", "P", "R", "S", "U", "W">>
LowerCase == <<"a", "c", "e", "l", "n", "o", "p", "r", "s", "u", "w">>

\* String.prototype.toLowerCase
ToLowerCase(s) ==
  [i \in 1..Len(s) |->
     IF \E k \in 1..Len(UpperCase) : UpperCase[k] = s[i]
     THEN LowerCase[CHOOSE k \in 1..Len(UpperCase) : UpperCase[k] = s[i]]
     ELSE s[i]]

\* String.prototype.trim
RECURSIVE Trim(_)
Trim(s) ==
  IF s # <<>> /\ s[1] = SPACE THEN Trim(Tail(s))
  ELSE IF s # <<>> /\ s[Len(s)] = SPACE THEN Trim(SubSeq(s, 1, Len(s) - 1))
  ELSE s

\* s.split(",")
RECURSIVE Split(_)
Split(s) ==
  LET c == IndexOf(s, COMMA, 1)
  IN IF c = 0 THEN <<s>>
     ELSE <<Slice(s, 1, c - 1)>> \o Split(Slice(s, c + 1, Len(s)))

\* An object with the properties of the function f.
Obj(f) == [t |-> "obj", f |-> f]

\* v.name for a v that is an object or a string: a property that v does not
\* have (any of the names read here, when v is a string) is undefined.
Prop(v, name) ==
  IF v.t = "obj" /\ name \in DOMAIN v.f THEN v.f[name] ELSE Undefined

\* v?.name
Opt(v, name) == IF v.t \in {"undefined", "null"} THEN Undefined ELSE Prop(v, name)

\* (v || "")
OrEmpty(v) == IF Falsy(v) THEN Str(<<>>) ELSE v

Min(a, b) == IF a <= b THEN a ELSE b

\* Math.min of three numbers.
Min3(a, b, c) == IF a <= b /\ a <= c THEN a ELSE IF b <= c THEN b ELSE c

\* One row of the matrix of levenshteinDistance: row i for the character
\* ch of b, from row i - 1; position j + 1 of a row holds matrix[i][j].
RECURSIVE LevRow(_, _, _, _)
LevRow(a, ch, prev, cur) ==
  LET j == Len(cur)
  IN IF j > Len(a) THEN cur
     ELSE LevRow(a, ch, prev,
                 Append(cur, IF ch = a[j] THEN prev[j]
                             ELSE Min3(prev[j], cur[j], prev[j + 1]) + 1))

RECURSIVE LevRows(_, _, _, _)
LevRows(a, b, i, prev) ==
  IF i > Len(b) THEN prev
  ELSE LevRows(a, b, i + 1, LevRow(a, b[i], prev, <<i>>))

\* levenshteinDistance(a, b)
LevenshteinDistance(a, b) ==
  IF Len(a) = 0 THEN Len(b)
  ELSE IF Len(b) = 0 THEN Len(a)
  ELSE LevRows(a, b, 1, [j \in 1..(Len(a) + 1) |-> j - 1])[Len(a) + 1]

\* The lower-cased values of c.city.<group>?.code and c.city.<group>?.name
\* over the directory that are truthy.
IdsOf(cities, group) ==
  { ToLowerCase(v.s) :
      v \in { x \in { Opt(Prop(Prop(cities[k], "city"), group), field) :
                        k \in 1..Len(cities), field \in {"code", "name"} } :
                ~Falsy(x) } }

\* The parse that reads the first component alone, however many there are.
ParseLocationQueryCityOnly(query, cities) ==
  IF Falsy(query) THEN Null
  ELSE [t |-> "query", city |-> Str(Trim(Split(Trim(query.s))[1])), state |-> Null,
        country |-> Null]

\* parseLocationQuery(query, citiesData): Null, or the record of city,
\* state and country.
ParseLocationQuery(query, cities) ==
  IF Falsy(query) THEN Null
  ELSE LET split == Split(Trim(query.s))
           parts == [i \in 1..Len(split) |-> Trim(split[i])]
       IN IF Len(parts) = 3
          THEN [t |-> "query", city |-> Str(parts[1]), state |-> Str(parts[2]),
                country |-> Str(parts[3])]
          ELSE IF Len(parts) = 2
          THEN LET id == ToLowerCase(parts[2])
                   isState == id \in IdsOf(cities, "state")
                   isCountry == id \in IdsOf(cities, "country")
               IN IF isCountry /\ ~isState
                  THEN [t |-> "query", city |-> Str(parts[1]), state |-> Null,
                        country |-> Str(id)]
                  ELSE [t |-> "query", city |-> Str(parts[1]), state |-> Str(id),
                        country |-> Null]
          ELSE IF Len(parts) = 1
          THEN [t |-> "query", city |-> Str(parts[1]), state |-> Null, country |-> Null]
          ELSE Null

\* The acceptance threshold (maxDistance = 3) and the number of suggestions
\* (scored.slice(0, 3)).
MaxDistance == 3
SuggestionCount == 3

\* The distance of a qualifier to the code and name of an entry's group:
\* Math.min(codeDist, nameDist).
GroupDistance(qualifier, cityData, group) ==
  LET at(field) == OrEmpty(Opt(Prop(Prop(cityData, "city"), group), field))
  IN Min(LevenshteinDistance(ToLowerCase(qualifier.s), ToLowerCase(at("code").s)),
         LevenshteinDistance(ToLowerCase(qualifier.s), ToLowerCase(at("name").s)))

\* `total` of one entry whose city property is a string.
TotalDistance(parsedQuery, cityData) ==
  2 * LevenshteinDistance(ToLowerCase(parsedQuery.city.s),
                          ToLowerCase(Prop(cityData, "city").s))
  + (IF Falsy(parsedQuery.state) THEN 0
     ELSE GroupDistance(parsedQuery.state, cityData, "state"))
  + (IF Falsy(parsedQuery.country) THEN 0
     ELSE GroupDistance(parsedQuery.country, cityData, "country"))

\* scored.sort((a, b) => a.totalDistance - b.totalDistance): ascending, and
\* stable, so equal scores keep their order.
RECURSIVE SortScored(_)
SortScored(scored) ==
  IF scored = <<>> THEN <<>>
  ELSE LET k == CHOOSE i \in 1..Len(scored) :
                  \A j \in 1..Len(scored) :
                    /\ scored[i].totalDistance <= scored[j].totalDistance
                    /\ j < i => scored[j].totalDistance > scored[i].totalDistance
       IN <<scored[k]>> \o
          SortScored(SubSeq(scored, 1, k - 1) \o SubSeq(scored, k + 1, Len(scored)))

\* One suggestion: s.city.city.name, s.city.city.state?.code,
\* s.city.city.country?.code.
Suggestion(cityData) ==
  [city |-> Prop(Prop(cityData, "city"), "name"),
   state |-> Opt(Prop(Prop(cityData, "city"), "state"), "code"),
   country |-> Opt(Prop(Prop(cityData, "city"), "country"), "code")]

\* [s.city, s.state, s.country].filter(Boolean)
SuggestionLine(sg) ==
  SelectSeq(<<sg.city, sg.state, sg.country>>, LAMBDA v : ~Falsy(v))

\* findBestMatchingCity(parsedQuery, citiesData): the returned object, or
\* the TypeError thrown when cityData.city has no toLowerCase.
FindBestMatchingCity(parsedQuery, cities) ==
  IF parsedQuery = Null \/ Falsy(parsedQuery.city)
  THEN [t |-> "result", match |-> Null, error |-> [text |-> "Invalid query format"]]
  ELSE IF \E k \in 1..Len(cities) : Prop(cities[k], "city").t # "str"
  THEN [t |-> "threw", message |-> "cityData.city.toLowerCase is not a function"]
  ELSE LET scored == [k \in 1..Len(cities) |->
                        [city |-> cities[k],
                         totalDistance |-> TotalDistance(parsedQuery, cities[k])]]
           sorted == SortScored(scored)
           best == CHOOSE i \in 1..Len(scored) :
                     \A j \in 1..Len(scored) :
                       /\ scored[i].totalDistance <= scored[j].totalDistance
                       /\ j < i => scored[j].totalDistance > scored[i].totalDistance
           suggestions == [i \in 1..Min(SuggestionCount, Len(sorted)) |->
                             Suggestion(sorted[i].city)]
       IN IF scored = <<>> \/ scored[best].totalDistance > MaxDistance
          THEN [t |-> "result", match |-> Null,
                error |-> [text |-> "No close matches found",
                           lines |-> [i \in 1..Len(suggestions) |->
                                        SuggestionLine(suggestions[i])]],
                suggestions |-> suggestions]
          ELSE [t |-> "result", match |-> scored[best].city,
                distance |-> scored[best].totalDistance]

\* ------------------------------------------------------------------------
\* Inputs: the decompressed table text and the compressed byte stream
\* ------------------------------------------------------------------------
HeaderLine ==
  <<"pano_lat", COMMA, "pano_lon", COMMA, "pano_id", COMMA,
    "capture_date", COMMA, "copyright_info", COMMA, "status">>

Line(lat, lon, id, date, copyright, status) ==
  lat \o <<COMMA>> \o lon \o <<COMMA>> \o id \o <<COMMA>> \o date
      \o <<COMMA>> \o copyright \o <<COMMA>> \o status

\* An accepted row: identifier X, captured in 2020.
PlainLine ==
  Line(<<"5">>, <<"7">>, <<"X">>, <<"2020-01-01">>, <<"© Google">>, <<"O", "K">>)

\* Rows of two identifiers and two years that pass every test of the filter
\* but the one on the date, which one of them fails.
CoreLines ==
  { PlainLine,
    Line(<<"5">>, <<"7">>, <<"X">>, <<"2021-06-01">>, <<"© Google">>, <<"O", "K">>),
    Line(<<"5">>, <<"7">>, <<"Y">>, <<"2021-06-01">>, <<"© Google">>, <<"O", "K">>),
    Line(<<"5">>, <<"7">>, <<"X">>, <<"bad">>, <<"© Google">>, <<"O", "K">>) }

\* One row per other way of failing the filter, and two rows with quoted
\* fields, one of them with a newline inside the quotes.
OddLines ==
  { Line(<<"5">>, <<"7">>, <<"Y">>, <<>>, <<"© Google">>, <<"O", "K">>),
    Line(<<"5">>, <<"7">>, <<"Y">>, <<"2020-01-01">>, <<"© Google">>, <<"ZERO_RESULTS">>),
    Line(<<"5">>, <<"7">>, <<"Y">>, <<"2020-01-01">>, <<"© Other">>, <<"O", "K">>),
    Line(<<"0">>, <<"7">>, <<"Y">>, <<"2020-01-01">>, <<"© Google">>, <<"O", "K">>),
    Line(<<>>, <<"7">>, <<"Y">>, <<"2020-01-01">>, <<"© Google">>, <<"O", "K">>),
    Line(<<"abc">>, <<"7">>, <<"Y">>, <<"2020-01-01">>, <<"© Google">>, <<"O", "K">>),
    Line(<<"5">>, <<"7">>, <<>>, <<"2020-01-01">>, <<"© Google">>, <<"O", "K">>),
    Line(<<"5">>, <<"7">>, <<"Y">>, <<"2020-01-01">>,
         <<QUOTE, "© Google", QUOTE>>, <<QUOTE, "O", "K", QUOTE>>),
    Line(<<"5">>, <<"7">>, <<"Y">>, <<"2020-01-01">>,
         <<QUOTE, "© Google", NEWLINE, "Inc", QUOTE>>, <<"O", "K">>) }

RECURSIVE JoinLines(_)
JoinLines(lines) ==
  IF lines = <<>> THEN <<>>
  ELSE IF Len(lines) = 1 THEN lines[1]
  ELSE lines[1] \o <<NEWLINE>> \o JoinLines(Tail(lines))

\* The data rows of the tables of the model: at most MaxRows lines, either
\* all of them core lines, or one odd line among plain lines.
Tables ==
  UNION { [1..n -> CoreLines] \cup
          { [i \in 1..n |-> IF i = at THEN odd ELSE PlainLine] :
              at \in 1..n, odd \in OddLines } : n \in 0..MaxRows }

\* Every table, with or without the newline after its last line.
Texts ==
  { JoinLines(<<HeaderLine>> \o rows) \o (IF nl THEN <<NEWLINE>> ELSE <<>>) :
      rows \in Tables, nl \in BOOLEAN }

\* The words of the queries and of the directory.
Rome == <<"R", "o", "m", "e">>
Roma == <<"R", "o", "m", "a">>
Lima == <<"L", "i", "m", "a">>
Nope == <<"N", "o", "p", "e">>
WA == <<"W", "A">>
Wash == <<"W", "a", "s", "h">>
CA == <<"C", "A">>
Cal == <<"C", "a", "l">>
Can == <<"C", "a", "n">>
US == <<"U", "S">>
USA == <<"U", "S", "A">>
PE == <<"P", "E">>
Peru == <<"P", "e", "r", "u">>

CodeName(code, name) == Obj([code |-> Str(code), name |-> Str(name)])

DataFile(name) == Obj([filename |-> Str(ToLowerCase(name) \o <<".csv.gz">>)])

\* The entries of the directory as the overview page reads them: the city
\* name under city, state and country beside it.  Lima has no state.
FlatEntries ==
  { Obj([city |-> Str(Rome), state |-> CodeName(WA, Wash), country |-> CodeName(US, USA),
         data_file |-> DataFile(Rome)]),
    Obj([city |-> Str(Roma), state |-> CodeName(CA, Cal), country |-> CodeName(US, USA),
         data_file |-> DataFile(Roma)]),
    Obj([city |-> Str(Rome), state |-> CodeName(Can, Nope), country |-> CodeName(CA, Can),
         data_file |-> DataFile(Can)]),
    Obj([city |-> Str(Lima), country |-> CodeName(PE, Peru), data_file |-> DataFile(Lima)]) }

\* The same entry in the shape of the per-city metadata: name, state and
\* country inside the city object.
Nested(entry) ==
  Obj([city |-> Obj([k \in DOMAIN entry.f \ {"city", "data_file"} |-> entry.f[k]]
                    @@ [name |-> entry.f.city]),
       data_file |-> entry.f.data_file])

\* The directories of the model: at most MaxEntries entries, all of them in
\* one of the two shapes.
MaxEntries == 3

Directories ==
  UNION { [1..n -> FlatEntries] \cup
          { [i \in 1..n |-> Nested(d[i])] : d \in [1..n -> FlatEntries] } :
          n \in 0..MaxEntries }

JoinWords(words, separator) ==
  LET RECURSIVE Join(_)
      Join(ws) == IF Len(ws) = 1 THEN ws[1] ELSE ws[1] \o separator \o Join(Tail(ws))
  IN Join(words)

\* The city parameters of the model: one to four components, in either
\* case, with and without blanks, with an empty component, and a name that
\* is far from every entry.
Queries ==
  { JoinWords(ws, sep) :
      ws \in { <<Rome>>, <<ToLowerCase(Roma)>>, <<Nope>>, <<<<>>>>,
               <<Rome, WA>>, <<ToLowerCase(Rome), ToLowerCase(WA)>>, <<Rome, Wash>>,
               <<Rome, CA>>, <<Rome, Can>>, <<Lima, PE>>, <<Lima, Peru>>, <<Lima, US>>,
               <<Nope, WA>>, <<<<>>, WA>>,
               <<Rome, WA, US>>, <<Roma, Cal, USA>>, <<Rome, <<>>, CA>>, <<Lima, Peru, PE>>,
               <<Rome, WA, US, US>> },
      sep \in { <<COMMA>>, <<COMMA, SPACE>> } }

\* The compressed sizes of the model: the size the metadata declares
\* (stats.data_file.size_bytes) and the number of bytes the response body
\* really delivers.
MaxBytes == 3

\* ------------------------------------------------------------------------
\* State
\* ------------------------------------------------------------------------
VARIABLES
  text,               \* the decompressed table text of the response
  actualBytes,        \* the compressed bytes the response body delivers
  pos,                \* atoms of text the reader has been handed so far
  pc,                 \* where loadData stands
  error,              \* what ended loadData in its catch block, if anything
  totalBytes,         \* stats.data_file.size_bytes
  receivedBytes,
  progressFill,       \* progressFill.style.width in percent, Null before it is set
  progressContainer,  \* progressContainer.style.display
  buffer,
  headerLine,
  processedPanos,
  temporalMap,
  validPoints,
  markersByYear,
  activeYears,
  selectedDate,
  totalPanosGlobal,
  legend,             \* the rows of the legend: year -> [active, count]
  chart,              \* the points of the temporal chart, Null before it exists
  rowsSeen,           \* every row handed to processRows so far, in order
  event,              \* the handler that ran last
  csvFile,            \* the "file" parameter of the page, Null when absent
  decodedCityQuery,   \* the "city" parameter of the page, Null when absent
  citiesData,         \* the payload of cities.json.gz (citiesData.cities)
  parsedQuery,        \* what parseLocationQuery returned, Null before
  result,             \* what findBestMatchingCity returned, Null before
  targetFile,         \* the table file loadData settles on
  alertText,          \* the text of the last alert, Null when none was shown
  boundsOutline,      \* whether the outline of the city bounds is on the map
  statsGlobal,        \* the city metadata kept for the legend, Null before
  subscribers,        \* EventMediator.subscribers: event -> callbacks in insertion order
  subscriptions,      \* every call of subscribe so far, in order
  publishes,          \* every call of Publish so far, with the callbacks it invoked
  calls,              \* App: the calls of loadSelectedCity so far, in order
  markers,            \* MapVisualizer.markers
  loading,            \* App: the display of the loading indicator
  clickHandlers,      \* MapVisualizer: the click handlers registered on the map
  clicked,            \* App: what the last click made the mediator do
  overviewCities,     \* overview page: cities, the entries of the directory
  legendSelected,     \* overview page: the ages whose legend row has class selected
  mapRectangles,      \* overview page: the style of the rectangle of each city
  charts              \* overview page: the point styles of the two scatter charts

vars ==
  <<text, actualBytes, pos, pc, error, totalBytes, receivedBytes, progressFill,
    progressContainer, buffer, headerLine, processedPanos, temporalMap,
    validPoints, markersByYear, activeYears, selectedDate, totalPanosGlobal,
    legend, chart, rowsSeen, event, csvFile, decodedCityQuery, citiesData, parsedQuery,
    result, targetFile, alertText, boundsOutline, statsGlobal, subscribers,
    subscriptions, publishes, timezoneOffset, calls, markers, loading,
    clickHandlers, clicked, overviewCities, legendSelected, mapRectangles, charts>>

inputVars == <<text, actualBytes, totalBytes, timezoneOffset>>
parseVars == <<buffer, headerLine, processedPanos, temporalMap, validPoints, rowsSeen>>
netVars == <<receivedBytes, progressFill>>
viewVars == <<markersByYear, activeYears, selectedDate, legend, chart>>
queryVars == <<csvFile, decodedCityQuery, citiesData, parsedQuery, result, targetFile>>
metaVars == <<boundsOutline, statsGlobal>>
mediatorVars == <<subscribers, subscriptions, publishes>>
appVars == <<calls, markers, loading, clickHandlers, clicked>>
overviewVars == <<overviewCities, legendSelected, mapRectangles, charts>>
otherPages == <<appVars, overviewVars>>
cityVars ==
  <<inputVars, pos, pc, error, progressContainer, parseVars, netVars, viewVars,
    totalPanosGlobal, event, queryVars, alertText, metaVars>>
pageVars == <<cityVars, otherPages>>

\* A percentage as an exact fraction num/den.
Percent(num, den) == [num |-> num, den |-> den]

\* The percentage without its cap of 99.
PctUncapped(received, total) ==
  IF total = 0
  THEN IF received = 0 THEN Percent(0, 0) ELSE Percent(99, 1)
  ELSE Percent(received * 100, total)

\* Math.min((receivedBytes / totalBytes) * 100, 99); a division by zero
\* gives Infinity (capped to 99), zero by zero gives NaN, kept as 0/0.
Pct(received, total) ==
  IF total = 0
  THEN IF received = 0 THEN Percent(0, 0) ELSE Percent(99, 1)
  ELSE Percent(Min(received * 100, 99 * total), total)

\* A plain table: the header and two accepted rows of different
\* identifiers and years.
PlainText ==
  JoinLines(<<HeaderLine, PlainLine,
              Line(<<"5">>, <<"7">>, <<"Y">>, <<"2021-06-01">>, <<"© Google">>, <<"O", "K">>)>>)
    \o <<NEWLINE>>

\* The page was opened with a file parameter and no city parameter.
FileParameter ==
  /\ csvFile = Str(<<"city.csv.gz">>)
  /\ decodedCityQuery = Null
  /\ citiesData = Null

\* new EventMediator(): no event has a set of callbacks yet.
NewEventMediator ==
  /\ subscribers = <<>>
  /\ subscriptions = <<>>
  /\ publishes = <<>>

\* new App(), MapVisualizer.initialize(): no call, no marker, no handler of
\* clicks on the map; the loading indicator starts hidden.
NewApp ==
  /\ calls = <<>>
  /\ markers = <<>>
  /\ loading = "none"
  /\ clickHandlers = 0
  /\ clicked = [op |-> "none"]

\* The overview page is not the page that is open.
NoOverview ==
  /\ overviewCities = <<>>
  /\ legendSelected = {}
  /\ mapRectangles = <<>>
  /\ charts = <<>>

\* The state when the page has loaded and loadData is about to run.
Start ==
  /\ pos = 0
  /\ pc = "start"
  /\ error = "none"
  /\ receivedBytes = 0
  /\ progressFill = Null
  /\ progressContainer = "none"
  /\ buffer = <<>>
  /\ headerLine = Null
  /\ processedPanos = {}
  /\ temporalMap = <<>>
  /\ validPoints = <<>>
  /\ markersByYear = <<>>
  /\ activeYears = {}
  /\ selectedDate = Null
  /\ totalPanosGlobal = 0
  /\ legend = <<>>
  /\ chart = Null
  /\ rowsSeen = <<>>
  /\ event = [op |-> "load"]
  /\ parsedQuery = Null
  /\ result = Null
  /\ targetFile = Null
  /\ alertText = Null
  /\ boundsOutline = FALSE
  /\ statsGlobal = Null

\* The plain table behind a body of any size and any declared size.
Init ==
  /\ text = PlainText
  /\ actualBytes \in 1..MaxBytes
  /\ totalBytes \in 0..(MaxBytes + 1)
  /\ FileParameter
  /\ NewEventMediator
  /\ timezoneOffset = 0
  /\ NewApp
  /\ NoOverview
  /\ Start

\* Any table behind a one-byte body of the declared size.
InitTables ==
  /\ text \in Texts
  /\ actualBytes = 1
  /\ totalBytes = 1
  /\ FileParameter
  /\ NewEventMediator
  /\ timezoneOffset = 0
  /\ NewApp
  /\ NoOverview
  /\ Start

\* ------------------------------------------------------------------------
\* Views
\* ------------------------------------------------------------------------

\* The legend that renders no row as active.
UpdateLegendNoActive(byYear, active) ==
  [y \in DOMAIN byYear |-> [active |-> FALSE, count |-> Len(byYear[y])]]

\* updateLegend(Object.keys(byYear)): one row per year bucket.
UpdateLegend(byYear, active) ==
  [y \in DOMAIN byYear |-> [active |-> y \in active, count |-> Len(byYear[y])]]

\* Apply a style change to every marker of every bucket.
MapMarkers(byYear, F(_)) ==
  [y \in DOMAIN byYear |-> [i \in 1..Len(byYear[y]) |-> F(byYear[y][i])]]

AddToMap(m) == [m EXCEPT !.onMap = TRUE]

\* resetMarkerStyles, and the same loop in the map click handler.
ResetStyle(m) == [m EXCEPT !.fillOpacity = 80, !.radius = 3]

ResetMarkerStyles(byYear) == MapMarkers(byYear, ResetStyle)

ToDateString(date) == date.iso

\* highlightMarkersForDate
HighlightMarkersForDate(byYear, date) ==
  MapMarkers(byYear,
    LAMBDA m : IF ToDateString(m.captureDate) = ToDateString(date)
               THEN [m EXCEPT !.fillOpacity = 100, !.radius = 4]
               ELSE [m EXCEPT !.fillOpacity = 5, !.radius = 3])

\* The dates of the temporal aggregate in ascending order
\* (temporalData after its sort).
RECURSIVE SortDates(_)
SortDates(keys) ==
  IF keys = {} THEN <<>>
  ELSE LET first == CHOOSE d \in keys :
                      \A e \in keys : NewDate(Str(<<d>>)).time <= NewDate(Str(<<e>>)).time
       IN <<first>> \o SortDates(keys \ {first})

\* createTemporalPlot: one point per date, at full opacity.
CreateTemporalPlot(counts) ==
  LET dates == SortDates(DOMAIN counts)
  IN [t |-> "chart",
      data |-> [i \in 1..Len(dates) |->
                  [x |-> NewDate(Str(<<dates[i]>>)), y |-> counts[dates[i]],
                   opacity |-> 100]]]

\* resetChartColors
ResetChartColors(c) ==
  [c EXCEPT !.data = [i \in 1..Len(c.data) |-> [c.data[i] EXCEPT !.opacity = 100]]]

\* updateChartColorsForDate
UpdateChartColorsForDate(c, date) ==
  [c EXCEPT !.data =
     [i \in 1..Len(c.data) |->
        [c.data[i] EXCEPT !.opacity =
           IF ToDateString(c.data[i].x) = ToDateString(date) THEN 100 ELSE 30]]]

\* ------------------------------------------------------------------------
\* loadData
\* ------------------------------------------------------------------------

\* The status codes of the model for which response.ok is false.
HttpErrorStatuses == {404, 500}

\* A catch block that leaves the progress container as it is.
CatchKeepingProgress(kind, message) ==
  /\ pc' = "failed"
  /\ error' = kind
  /\ UNCHANGED progressContainer
  /\ alertText' = [text |-> "Failed to load city data", message |-> message]

\* The catch block of loadData; message is error.message.
Catch(kind, message) ==
  /\ pc' = "failed"
  /\ error' = kind
  /\ progressContainer' = "none"
  /\ alertText' = [text |-> "Failed to load city data", message |-> message]

\* loadData up to its first await: the file parameter is present, the
\* progress container is shown, the metadata is requested.
LoadStart ==
  /\ pc = "start"
  /\ csvFile # Null
  /\ pc' = "metadata"
  /\ progressContainer' = "block"
  /\ targetFile' = csvFile
  /\ event' = [op |-> "load"]
  /\ UNCHANGED <<inputVars, otherPages, mediatorVars, csvFile, decodedCityQuery, citiesData, parsedQuery, result,
                 metaVars,
                 alertText, pos, error, parseVars, netVars, viewVars, totalPanosGlobal>>

\* fetchGzippedJson(metadataUrl) resolves; the table is requested.
MetadataLoaded ==
  /\ pc = "metadata"
  /\ pc' = "fetch"
  /\ statsGlobal' = [file |-> targetFile, size_bytes |-> totalBytes]
  /\ boundsOutline' = TRUE
  /\ event' = [op |-> "load"]
  /\ UNCHANGED <<inputVars, otherPages, mediatorVars, queryVars, alertText,
                 pos, error, progressContainer, parseVars, netVars,
                 viewVars, totalPanosGlobal>>

\* fetchGzippedJson(metadataUrl) throws.
MetadataFailed ==
  /\ pc = "metadata"
  /\ \E status \in HttpErrorStatuses :
       Catch("metadata", [http |-> status, fetching |-> <<"metadata", targetFile>>])
  /\ event' = [op |-> "load"]
  /\ UNCHANGED <<inputVars, otherPages, mediatorVars, queryVars, metaVars,
                 pos, parseVars, netVars, viewVars, totalPanosGlobal>>

\* fetch resolves with response.ok.
FetchOk ==
  /\ pc = "fetch"
  /\ pc' = "reading"
  /\ event' = [op |-> "load"]
  /\ UNCHANGED <<inputVars, otherPages, mediatorVars, queryVars, metaVars, alertText,
                 pos, error, progressContainer, parseVars, netVars,
                 viewVars, totalPanosGlobal>>

\* fetch resolves with a status that is not ok: loadData throws.
FetchNotOk ==
  /\ pc = "fetch"
  /\ \E status \in HttpErrorStatuses :
       Catch("http", [http |-> status, fetching |-> targetFile])
  /\ event' = [op |-> "load"]
  /\ UNCHANGED <<inputVars, otherPages, mediatorVars, queryVars, metaVars,
                 pos, parseVars, netVars, viewVars, totalPanosGlobal>>

\* progressStream.transform(chunk) for a chunk of k compressed bytes.  The
\* body keeps flowing after an exception in the read loop, which cancels
\* nothing.
Transform(k) ==
  /\ \/ pc = "reading"
     \/ pc = "failed" /\ error = "exception"
  /\ receivedBytes + k <= actualBytes
  /\ receivedBytes' = receivedBytes + k
  /\ progressFill' = Pct(receivedBytes', totalBytes)
  /\ event' = [op |-> "transform"]
  /\ UNCHANGED <<inputVars, otherPages, mediatorVars, queryVars, metaVars, alertText,
                 pos, pc, error, progressContainer, parseVars, viewVars,
                 totalPanosGlobal>>

PerParse ==
  [processedPanos |-> processedPanos, temporalMap |-> temporalMap,
   markersByYear |-> markersByYear, validPoints |-> validPoints, threw |-> FALSE]

\* One batch through Papa.parse and processRows.
RunBatch(batch) ==
  LET rows == IF batch.parse THEN PapaParse(batch.input) ELSE <<>>
  IN [rows |-> rows, st |-> ProcessRows(PerParse, rows)]

SetPerParse(run) ==
  /\ processedPanos' = run.st.processedPanos
  /\ temporalMap' = run.st.temporalMap
  /\ validPoints' = run.st.validPoints
  /\ rowsSeen' = rowsSeen \o run.rows

\* One turn of the read loop: reader.read() resolves with a fragment of k
\* atoms of the text.
ReadChunk(k) ==
  /\ pc = "reading"
  /\ receivedBytes >= 1
  /\ pos + k <= Len(text)
  /\ \E r \in {ReadValue(buffer, headerLine, SubSeq(text, pos + 1, pos + k))} :
     \E run \in {RunBatch(r)} :
        /\ pos' = pos + k
        /\ buffer' = r.buffer
        /\ headerLine' = r.headerLine
        /\ SetPerParse(run)
        /\ markersByYear' = run.st.markersByYear
        /\ IF run.st.threw
           THEN Catch("exception", [thrown |-> "Invalid LatLng object"])
           ELSE UNCHANGED <<pc, error, progressContainer, alertText>>
  /\ event' = [op |-> "read"]
  /\ UNCHANGED <<inputVars, otherPages, mediatorVars, queryVars, metaVars,
                 netVars, activeYears, selectedDate, legend, chart,
                 totalPanosGlobal>>

\* The last turn of the read loop: reader.read() resolves with done, the
\* rest of the buffer is flushed and the load is finalised.
ReadDone ==
  /\ pc = "reading"
  /\ receivedBytes = actualBytes
  /\ pos = Len(text)
  /\ \E run \in {RunBatch(ReadDoneFlush(buffer, headerLine))} :
        /\ SetPerParse(run)
        /\ markersByYear' = run.st.markersByYear
        /\ IF run.st.threw
           THEN /\ Catch("exception", [thrown |-> "Invalid LatLng object"])
                /\ UNCHANGED <<progressFill, totalPanosGlobal, legend, chart>>
           ELSE /\ progressFill' = Percent(100, 1)
                /\ progressContainer' = "none"
                /\ totalPanosGlobal' = Cardinality(run.st.processedPanos)
                /\ legend' = UpdateLegend(run.st.markersByYear, activeYears)
                /\ chart' = CreateTemporalPlot(run.st.temporalMap)
                /\ pc' = "done"
                /\ UNCHANGED <<error, alertText>>
  /\ event' = [op |-> "done"]
  /\ UNCHANGED <<inputVars, otherPages, mediatorVars, queryVars, metaVars,
                 pos, receivedBytes, buffer, headerLine, activeYears,
                 selectedDate>>

\* reader.read() rejects: the compressed stream is malformed or breaks off.
ReadFailed ==
  /\ pc = "reading"
  /\ Catch("decode", [thrown |-> "stream error"])
  /\ event' = [op |-> "read"]
  /\ UNCHANGED <<inputVars, otherPages, mediatorVars, queryVars, metaVars,
                 pos, parseVars, netVars, viewVars, totalPanosGlobal>>

\* loadData with neither parameter: it alerts and returns.
LoadNoParams ==
  /\ pc = "start"
  /\ csvFile = Null /\ Falsy(decodedCityQuery)
  /\ pc' = "returned"
  /\ alertText' = [text |-> "Please provide either a file parameter or city parameter"]
  /\ event' = [op |-> "load"]
  /\ UNCHANGED <<inputVars, otherPages, mediatorVars, queryVars, metaVars, pos, error, progressContainer,
                 parseVars, netVars, viewVars, totalPanosGlobal>>

\* loadData with a city parameter only, up to its first await: the progress
\* container is shown and the directory is requested.
LoadStartQuery ==
  /\ pc = "start"
  /\ csvFile = Null /\ ~Falsy(decodedCityQuery)
  /\ pc' = "cities"
  /\ progressContainer' = "block"
  /\ event' = [op |-> "load"]
  /\ UNCHANGED <<inputVars, otherPages, mediatorVars, queryVars, metaVars, alertText, pos, error, parseVars,
                 netVars, viewVars, totalPanosGlobal>>

\* fetchGzippedJson of the directory throws.
CitiesFailed ==
  /\ pc = "cities"
  /\ \E status \in HttpErrorStatuses :
       Catch("cities", [http |-> status, fetching |-> Str(<<"cities.json.gz">>)])
  /\ event' = [op |-> "load"]
  /\ UNCHANGED <<inputVars, otherPages, mediatorVars, queryVars, metaVars, pos, parseVars, netVars, viewVars,
                 totalPanosGlobal>>

\* The same step with a resolver that sorts the directory itself, not its
\* copy in scored, when it looks for suggestions.
CitiesLoadedSortingInPlace ==
  /\ pc = "cities"
  /\ \E parsed \in {ParseLocationQuery(decodedCityQuery, citiesData)} :
     \E found \in {FindBestMatchingCity(parsed, citiesData)} :
        /\ parsedQuery' = parsed
        /\ result' = found
        /\ IF found.t = "threw"
           THEN /\ Catch("exception", [thrown |-> found.message])
                /\ UNCHANGED <<targetFile, citiesData>>
           ELSE IF found.match = Null
           THEN /\ progressContainer' = "none"
                /\ alertText' = found.error
                /\ pc' = "returned"
                /\ citiesData' =
                     IF parsed = Null \/ Falsy(parsed.city) THEN citiesData
                     ELSE LET sorted == SortScored(
                                [k \in 1..Len(citiesData) |->
                                   [city |-> citiesData[k],
                                    totalDistance |-> TotalDistance(parsed, citiesData[k])]])
                          IN [k \in 1..Len(sorted) |-> sorted[k].city]
                /\ UNCHANGED <<error, targetFile>>
           ELSE /\ targetFile' = Prop(Prop(found.match, "data_file"), "filename")
                /\ pc' = "metadata"
                /\ UNCHANGED <<error, progressContainer, alertText, citiesData>>
  /\ event' = [op |-> "load"]
  /\ UNCHANGED <<inputVars, otherPages, mediatorVars, csvFile, decodedCityQuery, metaVars, pos,
                 parseVars, netVars, viewVars, totalPanosGlobal>>

\* The directory arrives: the query is parsed and resolved.  Without a
\* match loadData alerts the error and returns; with one it goes on to the
\* metadata of the matched file.
CitiesLoaded ==
  /\ pc = "cities"
  /\ \E parsed \in {ParseLocationQuery(decodedCityQuery, citiesData)} :
     \E found \in {FindBestMatchingCity(parsed, citiesData)} :
        /\ parsedQuery' = parsed
        /\ result' = found
        /\ IF found.t = "threw"
           THEN /\ Catch("exception", [thrown |-> found.message])
                /\ UNCHANGED targetFile
           ELSE IF found.match = Null
           THEN /\ progressContainer' = "none"
                /\ alertText' = found.error
                /\ pc' = "returned"
                /\ UNCHANGED <<error, targetFile>>
           ELSE /\ targetFile' = Prop(Prop(found.match, "data_file"), "filename")
                /\ pc' = "metadata"
                /\ UNCHANGED <<error, progressContainer, alertText>>
  /\ event' = [op |-> "load"]
  /\ UNCHANGED <<inputVars, otherPages, mediatorVars, csvFile, decodedCityQuery, citiesData, metaVars, pos,
                 parseVars, netVars, viewVars, totalPanosGlobal>>

\* ------------------------------------------------------------------------
\* EventMediator
\* ------------------------------------------------------------------------

\* The bounds on the calls of subscribe and of publish.
MaxSubscribes == 3
MaxPublishes == 2

\* The two events of the page, and what a publisher passes with each.
EventNames == {"dateHighlighted", "highlightReset"}

EventData(name) == IF name = "dateHighlighted" THEN Str(<<"2020-01-01">>) ELSE Undefined

\* The callbacks: the handler of the map, the handler of the histogram, and
\* one that throws when it is called.
Callbacks == {"map", "histogram", "faulty"}

Throws(callback) == callback = "faulty"

\* Set.prototype.add that puts the value first.
SetAddFirst(set, value) ==
  IF \E i \in 1..Len(set) : set[i] = value THEN set ELSE <<value>> \o set

\* Set.prototype.add: a Set keeps its values in insertion order, each once.
SetAdd(set, value) ==
  IF \E i \in 1..Len(set) : set[i] = value THEN set ELSE Append(set, value)

\* Set.prototype.forEach(callback => callback(data)): the callbacks called,
\* in order, up to and including the first that throws.
RECURSIVE ForEach(_, _)
ForEach(set, called) ==
  IF set = <<>> THEN [called |-> called, threw |-> FALSE]
  ELSE IF Throws(Head(set)) THEN [called |-> Append(called, Head(set)), threw |-> TRUE]
  ELSE ForEach(Tail(set), Append(called, Head(set)))

\* subscribe(event, callback)
Subscribe(name, callback) ==
  /\ Len(subscriptions) < MaxSubscribes
  /\ subscribers' =
       IF name \in DOMAIN subscribers
       THEN [subscribers EXCEPT ![name] = SetAdd(@, callback)]
       ELSE subscribers @@ (name :> SetAdd(<<>>, callback))
  /\ subscriptions' = Append(subscriptions, [event |-> name, callback |-> callback])
  /\ UNCHANGED <<pageVars, publishes>>

\* publish(event, data), with the calls of the callbacks it makes before it
\* returns or throws.
Publish(name, data) ==
  /\ Len(publishes) < MaxPublishes
  /\ \E run \in {IF name \in DOMAIN subscribers
                  THEN ForEach(subscribers[name], <<>>)
                  ELSE [called |-> <<>>, threw |-> FALSE]} :
       publishes' = Append(publishes,
                           [event |-> name, data |-> data,
                            after |-> Len(subscriptions),
                            called |-> [i \in 1..Len(run.called) |->
                                          [callback |-> run.called[i], data |-> data]],
                            outcome |-> IF run.threw THEN "threw" ELSE "returned"])
  /\ UNCHANGED <<pageVars, subscribers, subscriptions>>

\* ------------------------------------------------------------------------
\* Selection handlers
\* ------------------------------------------------------------------------

\* map.on("click") for a click on the map background.
MapClick ==
  /\ selectedDate' = Null
  /\ activeYears' = {}
  /\ markersByYear' = MapMarkers(ResetMarkerStyles(markersByYear), AddToMap)
  /\ legend' = UpdateLegend(markersByYear', activeYears')
  /\ event' = [op |-> "mapClick"]
  /\ UNCHANGED <<inputVars, otherPages, mediatorVars, queryVars, metaVars, alertText,
                 pos, pc, error, progressContainer, parseVars, netVars,
                 chart, totalPanosGlobal>>

\* toggleYear without its activeYears.clear().
ToggleYearNoClear(year) ==
  /\ year \in DOMAIN legend
  /\ LET wasActive == year \in activeYears
         shown == MapMarkers(markersByYear, AddToMap)
     IN /\ activeYears' = IF wasActive THEN activeYears ELSE activeYears \cup {year}
        /\ markersByYear' =
             IF wasActive THEN shown
             ELSE [y \in DOMAIN shown |->
                     IF y # year
                     THEN [i \in 1..Len(shown[y]) |-> [shown[y][i] EXCEPT !.onMap = FALSE]]
                     ELSE shown[y]]
  /\ legend' = UpdateLegend(markersByYear', activeYears')
  /\ event' = [op |-> "toggleYear", year |-> year, before |-> activeYears]
  /\ UNCHANGED <<inputVars, otherPages, mediatorVars, queryVars, metaVars, alertText,
                 pos, pc, error, progressContainer, parseVars, netVars,
                 selectedDate, chart, totalPanosGlobal>>

\* toggleYear that takes the markers of the other years out of their
\* buckets instead of off the map.
ToggleYearEmptyingBuckets(year) ==
  /\ year \in DOMAIN legend
  /\ LET wasActive == year \in activeYears
         shown == MapMarkers(markersByYear, AddToMap)
     IN /\ activeYears' = IF wasActive THEN {} ELSE {year}
        /\ markersByYear' =
             IF wasActive THEN shown
             ELSE [y \in DOMAIN shown |-> IF y # year THEN <<>> ELSE shown[y]]
  /\ legend' = UpdateLegend(markersByYear', activeYears')
  /\ event' = [op |-> "toggleYear", year |-> year, before |-> activeYears]
  /\ UNCHANGED <<inputVars, otherPages, mediatorVars, queryVars, metaVars, alertText,
                 pos, pc, error, progressContainer, parseVars, netVars,
                 selectedDate, chart, totalPanosGlobal>>

\* toggleYear(year), reached by a click on a row of the legend.
ToggleYear(year) ==
  /\ year \in DOMAIN legend
  /\ LET wasActive == year \in activeYears
         shown == MapMarkers(markersByYear, AddToMap)
     IN /\ activeYears' = IF wasActive THEN {} ELSE {year}
        /\ markersByYear' =
             IF wasActive THEN shown
             ELSE [y \in DOMAIN shown |->
                     IF y # year
                     THEN [i \in 1..Len(shown[y]) |-> [shown[y][i] EXCEPT !.onMap = FALSE]]
                     ELSE shown[y]]
  /\ legend' = UpdateLegend(markersByYear', activeYears')
  /\ event' = [op |-> "toggleYear", year |-> year, before |-> activeYears]
  /\ UNCHANGED <<inputVars, otherPages, mediatorVars, queryVars, metaVars, alertText,
                 pos, pc, error, progressContainer, parseVars, netVars,
                 selectedDate, chart, totalPanosGlobal>>

\* The click handler without its test for a click on the selected date.
ChartClickNoToggle(i) ==
  /\ chart # Null
  /\ i \in 1..Len(chart.data)
  /\ LET clickedDate == chart.data[i].x
     IN /\ selectedDate' = clickedDate
        /\ markersByYear' = HighlightMarkersForDate(markersByYear, clickedDate)
        /\ chart' = UpdateChartColorsForDate(chart, clickedDate)
        /\ event' = [op |-> "chartClick", date |-> clickedDate, before |-> selectedDate]
  /\ UNCHANGED <<inputVars, otherPages, mediatorVars, queryVars, metaVars, alertText,
                 pos, pc, error, progressContainer, parseVars, netVars,
                 activeYears, legend, totalPanosGlobal>>

\* The click handler of the chart canvas, for a click on point i.
ChartClick(i) ==
  /\ chart # Null
  /\ i \in 1..Len(chart.data)
  /\ LET clickedDate == chart.data[i].x
         same == selectedDate # Null /\ selectedDate.time = clickedDate.time
     IN /\ selectedDate' = IF same THEN Null ELSE clickedDate
        /\ markersByYear' =
             IF same THEN ResetMarkerStyles(markersByYear)
             ELSE HighlightMarkersForDate(markersByYear, clickedDate)
        /\ chart' =
             IF same THEN ResetChartColors(chart)
             ELSE UpdateChartColorsForDate(chart, clickedDate)
        /\ event' = [op |-> "chartClick", date |-> clickedDate, before |-> selectedDate]
  /\ UNCHANGED <<inputVars, otherPages, mediatorVars, queryVars, metaVars, alertText,
                 pos, pc, error, progressContainer, parseVars, netVars,
                 activeYears, legend, totalPanosGlobal>>

\* The click handler of the chart canvas, for a click that hits no point.
ChartClickEmpty ==
  /\ chart # Null
  /\ selectedDate' = Null
  /\ markersByYear' = ResetMarkerStyles(markersByYear)
  /\ chart' = ResetChartColors(chart)
  /\ event' = [op |-> "chartClickEmpty"]
  /\ UNCHANGED <<inputVars, otherPages, mediatorVars, queryVars, metaVars, alertText,
                 pos, pc, error, progressContainer, parseVars, netVars,
                 activeYears, legend, totalPanosGlobal>>

\* ------------------------------------------------------------------------
\* Specification
\* ------------------------------------------------------------------------
LoadNext ==
  \/ LoadStart
  \/ MetadataLoaded
  \/ MetadataFailed
  \/ FetchOk
  \/ FetchNotOk
  \/ \E k \in 1..MaxBytes : Transform(k)
  \/ \E k \in 1..Len(text) : ReadChunk(k)
  \/ ReadDone
  \/ ReadFailed

Next ==
  \/ LoadNext
  \/ MapClick
  \/ \E year \in DOMAIN legend : ToggleYear(year)
  \/ \E i \in 1..Len(DateTable) : ChartClick(i)
  \/ ChartClickEmpty

\* The page with the plain table: the load and the user's clicks in any
\* order.
Spec == Init /\ [][Next]_vars

\* The load of any table, with no click.
SpecTables == InitTables /\ [][LoadNext]_vars

\* The plain table on a client of any time zone of the model.
InitZones ==
  /\ text = PlainText
  /\ actualBytes \in 1..MaxBytes
  /\ totalBytes \in 0..(MaxBytes + 1)
  /\ FileParameter
  /\ NewEventMediator
  /\ timezoneOffset \in Zones
  /\ NewApp
  /\ NoOverview
  /\ Start

\* The load of the plain table in any time zone, with no click.
SpecZones == InitZones /\ [][LoadNext]_vars

\* The page opened without a file parameter, with any city parameter of the
\* model or none, before any directory of the model.
InitResolver ==
  /\ text = PlainText
  /\ actualBytes = 1
  /\ totalBytes = 1
  /\ csvFile = Null
  /\ decodedCityQuery \in {Null} \cup {Str(q) : q \in Queries}
  /\ citiesData \in Directories
  /\ NewEventMediator
  /\ timezoneOffset = 0
  /\ NewApp
  /\ NoOverview
  /\ Start

ResolveNext ==
  \/ LoadNoParams
  \/ LoadStartQuery
  \/ CitiesFailed
  \/ CitiesLoaded

\* The resolution of the city parameter, up to the metadata request.
SpecResolver == InitResolver /\ [][ResolveNext]_vars

\* The page opened with a file parameter, or without one and then with a
\* city parameter of a few shapes (a name, a name that matches nothing, four
\* components) or none, before a directory of at most one entry.
InitRuns ==
  /\ text = PlainText
  /\ actualBytes = 1
  /\ totalBytes = 1
  /\ \/ FileParameter
     \/ /\ csvFile = Null
        /\ decodedCityQuery \in
             {Null, Str(Rome), Str(Nope), Str(JoinWords(<<Rome, WA, US, US>>, <<COMMA>>))}
        /\ citiesData \in {d \in Directories : Len(d) <= 1}
  /\ NewEventMediator
  /\ timezoneOffset = 0
  /\ NewApp
  /\ NoOverview
  /\ Start

RunNext == LoadNext \/ ResolveNext

\* The steps of RunNext but CitiesLoaded and ReadChunk.  It is enabled in
\* the very states where RunNext is: CitiesFailed is enabled wherever
\* CitiesLoaded is, ReadFailed wherever ReadChunk is.
Settle ==
  \/ LoadNoParams
  \/ LoadStart
  \/ LoadStartQuery
  \/ CitiesFailed
  \/ MetadataLoaded
  \/ MetadataFailed
  \/ FetchOk
  \/ FetchNotOk
  \/ \E k \in 1..MaxBytes : Transform(k)
  \/ ReadDone
  \/ ReadFailed

\* Every run of loadData, from either parameter.  Each step of loadData
\* waits for a promise of the network (a response, the next chunk of the
\* body, the end of the body or its failure), and the continuation runs
\* when the promise is settled.  Fairness says that no promise stays
\* pending for ever: the body ends or fails in the end.  No behaviour has
\* infinitely many steps, so the condition is that of weak fairness of
\* RunNext, written over the steps whose enabling condition is plain.
SpecRuns == InitRuns /\ [][RunNext]_vars /\ WF_vars(Settle)

MediatorNext ==
  \/ \E name \in EventNames, callback \in Callbacks : Subscribe(name, callback)
  \/ \E name \in EventNames : Publish(name, EventData(name))

\* The page before any call of subscribe or publish.
InitMediator ==
  /\ text = PlainText
  /\ actualBytes = 1
  /\ totalBytes = 1
  /\ FileParameter
  /\ NewEventMediator
  /\ timezoneOffset = 0
  /\ NewApp
  /\ NoOverview
  /\ Start

\* The mediator of a page: subscriptions and publications in any order.
SpecMediator == InitMediator /\ [][MediatorNext]_vars

\* ------------------------------------------------------------------------
\* App: the city viewer built on MapVisualizer, HistogramVisualizer and the
\* EventMediator
\* ------------------------------------------------------------------------

\* The bound on the calls of loadSelectedCity.
MaxCalls == 3

FullRow(id, status) ==
  [status |-> status, pano_lat |-> 5, pano_lon |-> 7, capture_date |-> "2020-01-01",
   copyright_info |-> "© Google", pano_id |-> id]

\* The parsed tables behind the options of the city selector: two valid
\* rows; a valid row and one without result; a table without the column
\* pano_id; a table with no valid row.
CityFiles ==
  [A |-> <<FullRow("a1", "OK"), FullRow("a2", "OK")>>,
   B |-> <<FullRow("b1", "OK"), FullRow("b2", "ZERO_RESULTS")>>,
   C |-> <<[status |-> "OK", pano_lat |-> 5, pano_lon |-> 7,
            capture_date |-> "2020-01-01", copyright_info |-> "© Google"]>>,
   D |-> <<FullRow("d1", "ZERO_RESULTS")>>]

\* validateCityData(data) does not throw.
ValidateCityData(data) ==
  /\ Len(data) > 0
  /\ {"status", "pano_lat", "pano_lon", "capture_date", "copyright_info"}
       \subseteq DOMAIN data[1]

IsValidCoordinate(coord) == coord >= -180 /\ coord <= 180

\* DataLoader.filterValidData(data); the dates of the model are valid.
FilterValidData(data) ==
  SelectSeq(data, LAMBDA row :
    /\ row.status = "OK"
    /\ IsValidCoordinate(row.pano_lat)
    /\ IsValidCoordinate(row.pano_lon)
    /\ row.copyright_info = "© Google")

\* validateMarkerData(row) does not throw.
ValidateMarkerData(row) ==
  /\ {"pano_lat", "pano_lon", "capture_date", "copyright_info", "pano_id"}
       \subseteq DOMAIN row
  /\ IsValidCoordinate(row.pano_lat)
  /\ IsValidCoordinate(row.pano_lon)

\* validData.forEach(row => addMarker(row, maxAge)) after clearMarkers():
\* the markers pushed, and whether addMarker threw.
RECURSIVE AddMarkers(_, _)
AddMarkers(rows, pushed) ==
  IF rows = <<>> THEN [markers |-> pushed, threw |-> FALSE]
  ELSE IF ~ValidateMarkerData(Head(rows)) THEN [markers |-> pushed, threw |-> TRUE]
  ELSE AddMarkers(Tail(rows),
                  Append(pushed, [pano_id |-> Head(rows).pano_id,
                                  date |-> Head(rows).capture_date]))

\* updateVisualizations(validData, ...) up to the histogram: clearMarkers,
\* then a marker for each row.
UpdateVisualizations(validData) == AddMarkers(validData, <<>>)

\* The views that subscribe to the mediator.
Views == {"map", "histogram"}

\* eventMediator.subscribe(name, callback) on the subscribers given.
Subscribed(subs, name, callback) ==
  IF name \in DOMAIN subs
  THEN [subs EXCEPT ![name] = SetAdd(@, callback)]
  ELSE subs @@ (name :> SetAdd(<<>>, callback))

\* The arrow function that a view makes in its initializeInteractions
\* during call i.
Closure(view, name, i) == [view |-> view, event |-> name, call |-> i]

\* mapVisualizer.initializeInteractions() and then
\* histogramVisualizer.initializeInteractions(): each subscribes two new
\* functions.
InitializeInteractions(subs, i) ==
  Subscribed(Subscribed(Subscribed(Subscribed(subs,
    "dateHighlighted", Closure("map", "dateHighlighted", i)),
    "highlightReset", Closure("map", "highlightReset", i)),
    "dateHighlighted", Closure("histogram", "dateHighlighted", i)),
    "highlightReset", Closure("histogram", "highlightReset", i))

Finish(i, outcome) ==
  calls' = [calls EXCEPT ![i] = [@ EXCEPT !.pc = "finished", !.outcome = outcome]]

\* loadSelectedCity() with the option of file selected, up to its await.
LoadSelectedCity(file) ==
  /\ Len(calls) < MaxCalls
  /\ calls' = Append(calls, [file |-> file, pc |-> "fetching", outcome |-> "pending"])
  /\ loading' = "flex"
  /\ UNCHANGED <<cityVars, overviewVars, mediatorVars, markers, clickHandlers, clicked>>

\* DataLoader.loadCityData rejects in call i (HTTP error, empty body, bad
\* archive): catch, handleError, finally.
LoadCityDataRejected(i) ==
  /\ i \in DOMAIN calls
  /\ calls[i].pc = "fetching"
  /\ Finish(i, "failed")
  /\ loading' = "none"
  /\ UNCHANGED <<cityVars, overviewVars, mediatorVars, markers, clickHandlers, clicked>>

\* DataLoader.loadCityData resolves in call i: validation, filter, and
\* updateVisualizations up to the await of its promise.
LoadCityDataResolved(i) ==
  /\ i \in DOMAIN calls
  /\ calls[i].pc = "fetching"
  /\ LET rawData == CityFiles[calls[i].file]
         validData == FilterValidData(rawData)
         run == UpdateVisualizations(validData)
     IN IF ~ValidateCityData(rawData) \/ validData = <<>>
        THEN /\ Finish(i, "failed")
             /\ loading' = "none"
             /\ UNCHANGED <<markers, subscribers, subscriptions, clickHandlers>>
        ELSE /\ markers' = run.markers
             /\ UNCHANGED loading
             /\ IF run.threw
                THEN /\ calls' = [calls EXCEPT ![i] =
                                    [@ EXCEPT !.pc = "settling", !.outcome = "failed"]]
                     /\ UNCHANGED <<subscribers, subscriptions, clickHandlers>>
                ELSE /\ calls' = [calls EXCEPT ![i] =
                                    [@ EXCEPT !.pc = "settling", !.outcome = "ok"]]
                     /\ subscribers' = InitializeInteractions(subscribers, i)
                     /\ subscriptions' = subscriptions \o
                          << [event |-> "dateHighlighted",
                              callback |-> Closure("map", "dateHighlighted", i)],
                             [event |-> "highlightReset",
                              callback |-> Closure("map", "highlightReset", i)],
                             [event |-> "dateHighlighted",
                              callback |-> Closure("histogram", "dateHighlighted", i)],
                             [event |-> "highlightReset",
                              callback |-> Closure("histogram", "highlightReset", i)] >>
                     /\ clickHandlers' = clickHandlers + 1
  /\ UNCHANGED <<cityVars, overviewVars, publishes, clicked>>

\* The promise of updateVisualizations settles in call i: handleError when
\* it was rejected, then the finally block.
LoadSettled(i) ==
  /\ i \in DOMAIN calls
  /\ calls[i].pc = "settling"
  /\ calls' = [calls EXCEPT ![i].pc = "finished"]
  /\ loading' = "none"
  /\ UNCHANGED <<cityVars, overviewVars, mediatorVars, markers, clickHandlers, clicked>>

\* How many of the subscribers of the event belong to the view.
SubscribersOf(name, view) ==
  IF name \notin DOMAIN subscribers THEN 0
  ELSE Cardinality({k \in 1..Len(subscribers[name]) : subscribers[name][k].view = view})

\* A click on a marker (map.js 241-243) or on a bar of the histogram
\* (histogram.js onClick): one publish of dateHighlighted.
DateClick(op) ==
  /\ IF op = "markerClick" THEN markers # <<>>
     ELSE \E i \in DOMAIN calls : calls[i].outcome = "ok"
  /\ clicked' = [op |-> op, published |-> 1, handlers |-> clickHandlers,
                 applied |-> [v \in Views |-> SubscribersOf("dateHighlighted", v)]]
  /\ UNCHANGED <<cityVars, overviewVars, mediatorVars, calls, markers, loading,
                 clickHandlers>>

\* A click on the background of the map: every handler registered with
\* map.on('click') publishes highlightReset.  handlers is the number of
\* handlers at the time of the click.
BackgroundClick ==
  /\ clicked' = [op |-> "backgroundClick", published |-> clickHandlers,
                 handlers |-> clickHandlers,
                 applied |-> [v \in Views |->
                                clickHandlers * SubscribersOf("highlightReset", v)]]
  /\ UNCHANGED <<cityVars, overviewVars, mediatorVars, calls, markers, loading,
                 clickHandlers>>

AppNext ==
  \/ \E file \in DOMAIN CityFiles : LoadSelectedCity(file)
  \/ \E i \in 1..MaxCalls : LoadCityDataRejected(i)
  \/ \E i \in 1..MaxCalls : LoadCityDataResolved(i)
  \/ \E i \in 1..MaxCalls : LoadSettled(i)
  \/ \E op \in {"markerClick", "barClick"} : DateClick(op)
  \/ BackgroundClick

\* The viewer: calls of loadSelectedCity that may overlap, and clicks.
SpecApp == InitMediator /\ [][AppNext]_vars

\* ------------------------------------------------------------------------
\* The overview page (index.js): legend of median ages, a rectangle per
\* city, two scatter charts
\* ------------------------------------------------------------------------

\* The bound on the entries of the directory of the overview page.
MaxCities == 3

\* google_panos_age_stats.median_pano_age_years of the model, in tenths of
\* a year.
MedianAges == {5, 12, 19}

\* Math.floor and Math.ceil of an age in tenths.
Floor(age) == age \div 10
Ceil(age) == (age + 9) \div 10

\* The ages of the rows of the legend: 0 .. Math.ceil(maxAge).
LegendAges(cs) ==
  0..Ceil(CHOOSE a \in {cs[i] : i \in 1..Len(cs)} : \A i \in 1..Len(cs) : cs[i] <= a)

\* rect.setStyle(style): the options given replace those of the same name,
\* the others stay.
SetStyle(rect, style) ==
  [k \in DOMAIN rect |-> IF k \in DOMAIN style THEN style[k] ELSE rect[k]]

\* The styles of a point of a chart; opacities in percent, widths in tenths.
PointHighlighted == [faded |-> FALSE, pointRadius |-> 6, borderWidth |-> 2]
PointDimmed == [faded |-> TRUE, pointRadius |-> 3, borderWidth |-> 0]
PointDefault == [faded |-> FALSE, pointRadius |-> 4, borderWidth |-> 1]

BothCharts(points) == [pano |-> points, area |-> points]

\* highlightCitiesByExactAge(targetAge)
HighlightCitiesByExactAge(cs, rects, targetAge) ==
  [charts |-> BothCharts([i \in 1..Len(cs) |->
                 IF Floor(cs[i]) = targetAge THEN PointHighlighted ELSE PointDimmed]),
   mapRectangles |-> [i \in 1..Len(cs) |->
                 IF Floor(cs[i]) = targetAge
                 THEN SetStyle(rects[i], [fillOpacity |-> 80, weight |-> 20, opacity |-> 100])
                 ELSE SetStyle(rects[i], [fillOpacity |-> 10, weight |-> 1, opacity |-> 20])]]

\* highlightCity(city), for the city of index c
HighlightCity(cs, rects, c) ==
  [charts |-> BothCharts([i \in 1..Len(cs) |->
                 IF i = c THEN PointHighlighted ELSE PointDimmed]),
   mapRectangles |-> [i \in 1..Len(cs) |->
                 IF i = c
                 THEN SetStyle(rects[i], [fillOpacity |-> 80, weight |-> 20])
                 ELSE SetStyle(rects[i], [fillOpacity |-> 20, weight |-> 10])]]

\* resetHighlights()
ResetHighlights(cs, rects) ==
  [charts |-> BothCharts([i \in 1..Len(cs) |-> PointDefault]),
   mapRectangles |-> [i \in 1..Len(cs) |->
                 SetStyle(rects[i], [fillOpacity |-> 60, weight |-> 10])]]

SetHighlights(h) ==
  /\ charts' = h.charts
  /\ mapRectangles' = h.mapRectangles

\* The overview page after its loadData: the legend with no row selected,
\* a rectangle per city in its first style, the charts in theirs.
InitOverview ==
  /\ text = PlainText
  /\ actualBytes = 1
  /\ totalBytes = 1
  /\ FileParameter
  /\ NewEventMediator
  /\ timezoneOffset = 0
  /\ NewApp
  /\ Start
  /\ overviewCities \in UNION {[1..n -> MedianAges] : n \in 1..MaxCities}
  /\ legendSelected = {}
  /\ mapRectangles = [i \in 1..Len(overviewCities) |->
                        [fillOpacity |-> 60, weight |-> 10, opacity |-> 100]]
  /\ charts = BothCharts([i \in 1..Len(overviewCities) |-> PointDefault])

\* A click (or Enter, or the space bar) on the row of the legend for age.
LegendClick(age) ==
  /\ age \in LegendAges(overviewCities)
  /\ IF age \in legendSelected
     THEN /\ legendSelected' = {}
          /\ SetHighlights(ResetHighlights(overviewCities, mapRectangles))
     ELSE /\ legendSelected' = {age}
          /\ SetHighlights(HighlightCitiesByExactAge(overviewCities, mapRectangles, age))
  /\ UNCHANGED <<cityVars, appVars, mediatorVars, overviewCities>>

\* mouseover on the rectangle of city c
RectMouseover(c) ==
  /\ c \in 1..Len(overviewCities)
  /\ SetHighlights(HighlightCity(overviewCities, mapRectangles, c))
  /\ UNCHANGED <<cityVars, appVars, mediatorVars, overviewCities, legendSelected>>

\* mouseout of a rectangle
RectMouseout ==
  /\ SetHighlights(ResetHighlights(overviewCities, mapRectangles))
  /\ UNCHANGED <<cityVars, appVars, mediatorVars, overviewCities, legendSelected>>

\* onHover of a chart over the point of city c
ChartHover(c) ==
  /\ c \in 1..Len(overviewCities)
  /\ SetHighlights(HighlightCity(overviewCities, mapRectangles, c))
  /\ UNCHANGED <<cityVars, appVars, mediatorVars, overviewCities, legendSelected>>

\* onHover of a chart over no point
ChartHoverNothing ==
  /\ SetHighlights(ResetHighlights(overviewCities, mapRectangles))
  /\ UNCHANGED <<cityVars, appVars, mediatorVars, overviewCities, legendSelected>>

OverviewNext ==
  \/ \E age \in LegendAges(overviewCities) : LegendClick(age)
  \/ \E c \in 1..MaxCities : RectMouseover(c)
  \/ RectMouseout
  \/ \E c \in 1..MaxCities : ChartHover(c)
  \/ ChartHoverNothing

\* The overview page: clicks on the legend and hovers in any order.
SpecOverview == InitOverview /\ [][OverviewNext]_vars

\* ------------------------------------------------------------------------
\* Definitions used by the properties
\* ------------------------------------------------------------------------

\* Every marker of every year bucket.
Markers ==
  UNION {{markersByYear[y][i] : i \in 1..Len(markersByYear[y])} : y \in DOMAIN markersByYear}

\* The identifiers of the markers, in the order of their creation.
MarkerIds ==
  [k \in 1..Cardinality(Markers) |-> (CHOOSE m \in Markers : m.n = k).panoId]

TemporalTotal ==
  LET RECURSIVE Sum(_)
      Sum(ds) == IF ds = {} THEN 0
                 ELSE LET d == CHOOSE e \in ds : TRUE
                      IN temporalMap[d] + Sum(ds \ {d})
  IN Sum(DOMAIN temporalMap)

Present(value) == value.t \notin {"null", "undefined"}

\* The validity filter as the specification words it: success status,
\* required attribution, a capture date that parses, coordinates and
\* identifier present.
ValidRow(row) ==
  /\ Get(row, "status") = OK
  /\ Get(row, "copyright_info") = Google
  /\ Present(Get(row, "capture_date"))
  /\ NewDate(Get(row, "capture_date")).valid
  /\ Present(Get(row, "pano_lat"))
  /\ Present(Get(row, "pano_lon"))
  /\ Present(Get(row, "pano_id"))

\* The same with coordinates that are numbers, zero included.
ValidNumericRow(row) ==
  /\ ValidRow(row)
  /\ Get(row, "pano_lat").t = "num"
  /\ Get(row, "pano_lon").t = "num"

\* The rows that are valid and whose identifier no earlier row of the
\* result carries.
RECURSIVE FirstValidRows(_, _)
FirstValidRows(rows, ids) ==
  IF rows = <<>> THEN <<>>
  ELSE IF ValidNumericRow(Head(rows)) /\ Get(Head(rows), "pano_id") \notin ids
  THEN <<Head(rows)>> \o FirstValidRows(Tail(rows), ids \cup {Get(Head(rows), "pano_id")})
  ELSE FirstValidRows(Tail(rows), ids)

Leq(p, q) == p.num * q.den <= q.num * p.den

InRange(p) == p.den > 0 /\ 0 <= p.num /\ p.num <= 100 * p.den

Hundred == Percent(100, 1)

Terminal == pc \in {"done", "failed"}

\* ------------------------------------------------------------------------
\* Properties
\* ------------------------------------------------------------------------

\* C1: chunk-boundary invariance.  When a load has finished, the rows that
\* processRows has seen, in order, are the rows it sees when the whole text
\* arrives as one fragment, whatever the fragments were.
ChunkBoundaryInvariance ==
  pc = "done" => rowsSeen = FeedRows(<<>>, Null, <<text>>)

\* C2: at most one marker per record identifier in every state of a load,
\* and the load never ends in an exception unless a row with a coordinate
\* that is not a number was seen (a duplicate raises no error).
OneMarkerPerIdentifier ==
  /\ \A m1, m2 \in Markers : m1.panoId = m2.panoId => m1 = m2
  /\ error = "exception" =>
       \E i \in 1..Len(rowsSeen) :
         IsNaN(Get(rowsSeen[i], "pano_lat")) \/ IsNaN(Get(rowsSeen[i], "pano_lon"))

\* C2 witness: a finished load that has seen two rows with the same
\* identifier, each of which passes the filter on its own, and holds one
\* marker for it.
DuplicateDropped ==
  /\ pc = "done"
  /\ \E i, j \in 1..Len(rowsSeen) :
       /\ i < j
       /\ Get(rowsSeen[i], "pano_id") = Get(rowsSeen[j], "pano_id")
       /\ ValidNumericRow(rowsSeen[i]) /\ ~RowFiltered(rowsSeen[i], {})
       /\ ValidNumericRow(rowsSeen[j]) /\ ~RowFiltered(rowsSeen[j], {})
       /\ Cardinality({m \in Markers : m.panoId = Get(rowsSeen[i], "pano_id")}) = 1

\* C3: first occurrence wins.  When a load has finished, every row that
\* passes the filter with coordinates that are numbers other than zero, and
\* that no valid row with the same identifier precedes, has exactly one
\* marker, which carries its capture date, also when an invalid row with
\* that identifier precedes it.
FirstValidOccurrenceWins ==
  pc = "done" =>
    \A i \in 1..Len(rowsSeen) :
      (/\ ValidNumericRow(rowsSeen[i])
       /\ Get(rowsSeen[i], "pano_lat").n # 0
       /\ Get(rowsSeen[i], "pano_lon").n # 0
       /\ \A j \in 1..(i - 1) :
            ValidRow(rowsSeen[j]) =>
              Get(rowsSeen[j], "pano_id") # Get(rowsSeen[i], "pano_id"))
      => /\ Cardinality({m \in Markers : m.panoId = Get(rowsSeen[i], "pano_id")}) = 1
         /\ \A m \in Markers :
              m.panoId = Get(rowsSeen[i], "pano_id") =>
                m.captureDate = NewDate(Get(rowsSeen[i], "capture_date"))

\* C4: processRows accepts a row if and only if it is valid with numeric
\* coordinates (zero included) and its identifier has not been accepted
\* before: in every state the markers are those of exactly these rows, in
\* order, and the temporal counts add up to their number.
AcceptsExactlyValidRows ==
  LET accepted == FirstValidRows(rowsSeen, {})
  IN /\ MarkerIds = [k \in 1..Len(accepted) |-> Get(accepted[k], "pano_id")]
     /\ TemporalTotal = Len(accepted)

\* C5: the progress values written during a load are non-decreasing and
\* lie in [0,100].
ProgressMonotone ==
  [][/\ progressFill' # Null => InRange(progressFill')
     /\ (progressFill # Null /\ progressFill' # Null) => Leq(progressFill, progressFill')
    ]_vars

\* C5 witness: a finished load whose declared size is smaller than the
\* bytes received, which arrived in more than one chunk.
ProgressWritten ==
  /\ pc = "done"
  /\ progressFill = Hundred
  /\ totalBytes < receivedBytes
  /\ receivedBytes > 1

\* C6: progress 100 is reported only once the text is exhausted and the
\* final batch processed; while the load is reading progress is at most 99;
\* and when the load has ended, its last progress value is 100 if and only
\* if it did not end in an HTTP or decompression failure.
HundredIffNoFailure ==
  /\ progressFill = Hundred => pc = "done" /\ pos = Len(text)
  /\ (pc = "reading" /\ progressFill # Null) => Leq(progressFill, Percent(99, 1))
  /\ Terminal => (progressFill = Hundred <=> error \notin {"metadata", "http", "decode"})

\* C7: a year selection and a date selection are never active together.
OneSelectionKey == ~(activeYears # {} /\ selectedDate # Null)

\* C8: the toggle law of years.  toggleYear(y) from no selected year leaves
\* exactly y selected, on the selected year it leaves none selected, on
\* another selected year it leaves exactly y selected; the legend it renders
\* and the markers it leaves on the map show that final selection.
YearToggleLaw ==
  [][event'.op = "toggleYear" =>
       LET y == event'.year
       IN /\ activeYears = {} => activeYears' = {y}
          /\ activeYears = {y} => activeYears' = {}
          /\ (activeYears # {} /\ activeYears # {y}) => activeYears' = {y}
          /\ \A z \in DOMAIN legend' : legend'[z].active <=> z \in activeYears'
          /\ \A z \in DOMAIN markersByYear' : \A i \in 1..Len(markersByYear'[z]) :
               markersByYear'[z][i].onMap <=> (activeYears' = {} \/ z \in activeYears')
    ]_vars

\* C8 witness: toggleYear(2021) has just run while 2020 was the selected
\* year, and 2021 is the selected year, with the markers of 2020 off the map.
YearToggled ==
  /\ event.op = "toggleYear"
  /\ event.year = 2021
  /\ event.before = {2020}
  /\ activeYears = {2021}
  /\ 2020 \in DOMAIN markersByYear
  /\ \A i \in 1..Len(markersByYear[2020]) : ~markersByYear[2020][i].onMap

\* C9: the toggle law of dates.  A click on the chart point of date d
\* selects d when d is not the selected date (replacing another selected
\* date), and clears the selection when d is the selected date.
DateToggleLaw ==
  [][event'.op = "chartClick" =>
       LET d == event'.date
       IN /\ selectedDate = Null => selectedDate' = d
          /\ selectedDate = d => selectedDate' = Null
          /\ (selectedDate # Null /\ selectedDate # d) => selectedDate' = d
    ]_vars

\* C9 witness: a click on the chart point of the selected date has just
\* cleared the selection, and the chart is back at full opacity.
DateToggledOff ==
  /\ event.op = "chartClick"
  /\ event.before = event.date
  /\ selectedDate = Null
  /\ Len(chart.data) > 1
  /\ \A i \in 1..Len(chart.data) : chart.data[i].opacity = 100

\* C10: right after a click on the map background no year and no date is
\* selected and every view shows its default state: every marker on the map
\* in its default style, no legend row active, every chart point at full
\* opacity.
ClearLeadsToIdle ==
  event.op = "mapClick" =>
    /\ activeYears = {}
    /\ selectedDate = Null
    /\ \A m \in Markers : m.onMap /\ m.fillOpacity = 80 /\ m.radius = 3
    /\ \A y \in DOMAIN legend : ~legend[y].active
    /\ chart # Null => \A i \in 1..Len(chart.data) : chart.data[i].opacity = 100

\* The style that the selection alone gives a marker: default when no date
\* is selected, highlighted when it matches the selected date, dimmed
\* otherwise.
MarkerStyleOfSelection(m) ==
  IF selectedDate = Null THEN m.fillOpacity = 80 /\ m.radius = 3
  ELSE IF ToDateString(m.captureDate) = ToDateString(selectedDate)
  THEN m.fillOpacity = 100 /\ m.radius = 4
  ELSE m.fillOpacity = 5 /\ m.radius = 3

\* The same for a point of the chart.
PointStyleOfSelection(pt) ==
  IF selectedDate = Null THEN pt.opacity = 100
  ELSE IF ToDateString(pt.x) = ToDateString(selectedDate) THEN pt.opacity = 100
  ELSE pt.opacity = 30

MarkersFollowSelection == \A m \in Markers : MarkerStyleOfSelection(m)

\* C11: view consistency.  In every state the style of every marker and
\* the opacity of every chart point are the ones the current selection
\* determines: dimmed exactly when a date is selected and the marker or
\* point does not match it.
ViewConsistency ==
  /\ MarkersFollowSelection
  /\ chart # Null => \A i \in 1..Len(chart.data) : PointStyleOfSelection(chart.data[i])

\* C12: when the table fetch answers with a status that is not ok, loadData
\* fails before any chunk is read, its alert names the file and the status,
\* and the load leaves nothing in the views: no marker, no year bucket, no
\* temporal entry, no legend row, no chart and no outline on the map.
HttpFailureExposesNothing ==
  error = "http" =>
    /\ pc = "failed" /\ pos = 0 /\ receivedBytes = 0 /\ rowsSeen = <<>>
    /\ alertText # Null
    /\ alertText.message.fetching = targetFile
    /\ alertText.message.http \in HttpErrorStatuses
    /\ Markers = {} /\ markersByYear = <<>> /\ temporalMap = <<>>
    /\ legend = <<>> /\ chart = Null
    /\ ~boundsOutline

\* The chart shows the per-date counts of the temporal aggregate.
ChartShows(c, counts) ==
  /\ c # Null
  /\ Len(c.data) = Cardinality(DOMAIN counts)
  /\ \A i \in 1..Len(c.data) :
       c.data[i].x.iso \in DOMAIN counts /\ c.data[i].y = counts[c.data[i].x.iso]

\* C13: when the decompressed stream fails, the load ends failed with
\* progress below 100, and what the batches before the failure created is
\* kept and shown: the markers stay in their buckets and on the map, and
\* the per-date counts stay and are shown by the chart.
DecodeFailureKeepsPartialState ==
  [][error' = "decode" =>
       /\ pc' = "failed"
       /\ progressFill' # Hundred
       /\ markersByYear' = markersByYear
       /\ \A y \in DOMAIN markersByYear' : \A i \in 1..Len(markersByYear'[y]) :
            markersByYear'[y][i].onMap
       /\ temporalMap' = temporalMap
       /\ temporalMap' # <<>> => ChartShows(chart', temporalMap')
    ]_vars

\* C14: a load that reaches the end of the stream with no accepted record
\* does not end in the normal completed state.
NoDataReported == ~(pc = "done" /\ Markers = {})

\* The aggregates of a per-parse state: the number of markers, the
\* identifiers in each year bucket and the per-date counts.
Aggregates(st) ==
  [count |-> MarkerCount(st.markersByYear),
   buckets |-> [y \in DOMAIN st.markersByYear |->
                  {st.markersByYear[y][i].panoId : i \in 1..Len(st.markersByYear[y])}],
   temporal |-> st.temporalMap]

\* The per-parse state before the first batch.
FreshParse ==
  [processedPanos |-> {}, temporalMap |-> <<>>, markersByYear |-> <<>>,
   validPoints |-> <<>>, threw |-> FALSE]

\* Every row followed by a copy of itself.
RECURSIVE EachRowTwice(_)
EachRowTwice(rows) ==
  IF rows = <<>> THEN <<>>
  ELSE <<Head(rows), Head(rows)>> \o EachRowTwice(Tail(rows))

\* C15: dedup idempotence.  The aggregates of a load that has ended
\* (completed, or stopped by a row) are those of ingesting its rows with
\* every row duplicated once, the copy right after the row or the whole
\* table appended to itself.
DedupIdempotence ==
  (pc = "done" \/ error = "exception") =>
    LET here == [markersByYear |-> markersByYear, temporalMap |-> temporalMap]
    IN /\ Aggregates(here) = Aggregates(ProcessRows(FreshParse, EachRowTwice(rowsSeen)))
       /\ Aggregates(here) = Aggregates(ProcessRows(FreshParse, rowsSeen \o rowsSeen))

\* C15 witness: a completed load of two rows that were both accepted, so
\* that the table with every row duplicated holds two rows to drop.
IngestedTwoRecords ==
  /\ pc = "done"
  /\ Len(rowsSeen) = 2
  /\ Cardinality(Markers) = 2
  /\ Cardinality(DOMAIN markersByYear) = 2

\* ------------------------------------------------------------------------
\* The location resolver as the specification words it
\* ------------------------------------------------------------------------

\* The directory is in the shape the overview page reads: the city name
\* under city, region and country beside it.
IsFlat(cities) == \A k \in 1..Len(cities) : Prop(cities[k], "city").t = "str"

\* Name, and code or name of the region or country, of a directory entry
\* (the empty string when the entry has none).
EntryName(entry) == Prop(entry, "city").s

EntryId(entry, group, field) == OrEmpty(Opt(Prop(entry, group), field)).s

\* The trimmed comma-separated components of the query.
QueryParts(q) == LET split == Split(Trim(q)) IN [i \in 1..Len(split) |-> Trim(split[i])]

\* The resolution of the query has run.
Resolved == result # Null

\* Levenshtein distance by its recurrence: insert, delete and substitute
\* cost 1.
RECURSIVE EditDistance(_, _)
EditDistance(a, b) ==
  IF a = <<>> THEN Len(b)
  ELSE IF b = <<>> THEN Len(a)
  ELSE IF Head(a) = Head(b) THEN EditDistance(Tail(a), Tail(b))
  ELSE 1 + Min3(EditDistance(Tail(a), b), EditDistance(a, Tail(b)),
                EditDistance(Tail(a), Tail(b)))

CaseInsensitiveDistance(a, b) == EditDistance(ToLowerCase(a), ToLowerCase(b))

\* 2 x city distance + min region distance (if a region was supplied)
\* + min country distance (if a country was supplied).
WeightedDistance(query, entry) ==
  2 * CaseInsensitiveDistance(query.city.s, EntryName(entry))
  + (IF Falsy(query.state) THEN 0
     ELSE Min(CaseInsensitiveDistance(query.state.s, EntryId(entry, "state", "code")),
              CaseInsensitiveDistance(query.state.s, EntryId(entry, "state", "name"))))
  + (IF Falsy(query.country) THEN 0
     ELSE Min(CaseInsensitiveDistance(query.country.s, EntryId(entry, "country", "code")),
              CaseInsensitiveDistance(query.country.s, EntryId(entry, "country", "name"))))

\* The entry matches the two components of a "City, RegionCode" query.
IsExactEntry(entry, parts) ==
  /\ ToLowerCase(EntryName(entry)) = ToLowerCase(parts[1])
  /\ ToLowerCase(EntryId(entry, "state", "code")) = ToLowerCase(parts[2])

\* C16: resolver exact match.  For a query of two components and a
\* directory that holds an entry whose city name and region code equal
\* them without regard to case, the resolution returns such an entry with
\* total distance 0.
ExactMatchScoresZero ==
  (Resolved /\ IsFlat(citiesData)) =>
    LET parts == QueryParts(decodedCityQuery.s)
    IN (/\ Len(parts) = 2
        /\ parts[1] # <<>> /\ parts[2] # <<>>
        /\ \E k \in 1..Len(citiesData) : IsExactEntry(citiesData[k], parts))
       => /\ result.t = "result"
          /\ result.match # Null
          /\ IsExactEntry(result.match, parts)
          /\ result.distance = 0

\* C17: the score that findBestMatchingCity computes for every entry of
\* the directory is the weighted distance of the parsed query to it.
ScoreIsWeightedDistance ==
  (Resolved /\ IsFlat(citiesData) /\ parsedQuery # Null /\ ~Falsy(parsedQuery.city)) =>
    \A k \in 1..Len(citiesData) :
      TotalDistance(parsedQuery, citiesData[k]) = WeightedDistance(parsedQuery, citiesData[k])

\* Entry j comes before entry k in ascending order of score, ties in
\* directory order.
ScoredBefore(j, k) ==
  LET total(i) == TotalDistance(parsedQuery, citiesData[i])
  IN total(j) < total(k) \/ (total(j) = total(k) /\ j < k)

\* The entry at place i of that order.
Ranked(i) ==
  citiesData[CHOOSE k \in 1..Len(citiesData) :
               Cardinality({j \in 1..Len(citiesData) : ScoredBefore(j, k)}) = i - 1]

\* The name, region code and country code of an entry.
EntryTuple(entry) ==
  [city |-> Prop(entry, "city"),
   state |-> Opt(Prop(entry, "state"), "code"),
   country |-> Opt(Prop(entry, "country"), "code")]

\* C18: the resolution returns the entry of minimum score, the earliest
\* among ties, when that score is at most the threshold; otherwise no match
\* and the at most three lowest-scoring entries as suggestions, ascending
\* by score, ties in directory order.
BestMatchOrSuggestions ==
  (Resolved /\ IsFlat(citiesData) /\ parsedQuery # Null /\ ~Falsy(parsedQuery.city)) =>
    /\ result.t = "result"
    /\ IF citiesData # <<>> /\ TotalDistance(parsedQuery, Ranked(1)) <= MaxDistance
       THEN result.match = Ranked(1)
       ELSE /\ result.match = Null
            /\ Len(result.suggestions) = Min(SuggestionCount, Len(citiesData))
            /\ \A i \in 1..Len(result.suggestions) :
                 result.suggestions[i] = EntryTuple(Ranked(i))

\* The lower-cased codes and names of a group over the directory.
KnownIds(cities, group) ==
  { ToLowerCase(EntryId(cities[k], group, field)) :
      k \in 1..Len(cities), field \in {"code", "name"} } \ {<<>>}

\* C19: parseLocationQuery gives a city-only query for one component, city
\* and one qualifier for two, city, region and country in that order for
\* three, and fails for more; a query of four components ends loadData with
\* the query error reported, no exception and no table load started.
ParseByComponentCount ==
  Resolved =>
    LET parts == QueryParts(decodedCityQuery.s)
    IN /\ Len(parts) = 1 =>
            parsedQuery = [t |-> "query", city |-> Str(parts[1]), state |-> Null,
                           country |-> Null]
       /\ Len(parts) = 2 =>
            /\ parsedQuery # Null
            /\ parsedQuery.city = Str(parts[1])
            /\ \/ parsedQuery.state = Str(ToLowerCase(parts[2])) /\ parsedQuery.country = Null
               \/ parsedQuery.country = Str(ToLowerCase(parts[2])) /\ parsedQuery.state = Null
       /\ Len(parts) = 3 =>
            parsedQuery = [t |-> "query", city |-> Str(parts[1]), state |-> Str(parts[2]),
                           country |-> Str(parts[3])]
       /\ Len(parts) > 3 =>
            /\ parsedQuery = Null
            /\ pc = "returned" /\ error = "none"
            /\ alertText = [text |-> "Invalid query format"]
            /\ progressContainer = "none"
            /\ targetFile = Null /\ statsGlobal = Null /\ pos = 0

\* C19 witness: a query of four components before a directory of three
\* entries has been answered with the query error.
FourComponentsRejected ==
  /\ Resolved
  /\ Len(QueryParts(decodedCityQuery.s)) = 4
  /\ Len(citiesData) = 3
  /\ pc = "returned"
  /\ alertText = [text |-> "Invalid query format"]

\* C20: the qualifier of a two-component query is classified as a country
\* exactly when it equals a country code or name of the directory and no
\* region code or name, and as a region otherwise.
QualifierClassification ==
  (Resolved /\ IsFlat(citiesData) /\ Len(QueryParts(decodedCityQuery.s)) = 2) =>
    LET id == ToLowerCase(QueryParts(decodedCityQuery.s)[2])
        isCountry == /\ id \in KnownIds(citiesData, "country")
                     /\ id \notin KnownIds(citiesData, "state")
    IN /\ isCountry => parsedQuery.country = Str(id) /\ parsedQuery.state = Null
       /\ ~isCountry => parsedQuery.state = Str(id) /\ parsedQuery.country = Null

RECURSIVE SubscribedTo(_, _)
SubscribedTo(name, n) ==
  IF n = 0 THEN <<>>
  ELSE LET before == SubscribedTo(name, n - 1)
           s == subscriptions[n]
       IN IF s.event = name /\ \A i \in 1..Len(before) : before[i] # s.callback
          THEN Append(before, s.callback)
          ELSE before

\* The callbacks a call of publish invoked, in order.
CalledBy(p) == [i \in 1..Len(p.called) |-> p.called[i].callback]

IsPrefix(a, b) == Len(a) <= Len(b) /\ a = SubSeq(b, 1, Len(a))

ThrowDoesNotAbortFanOut ==
  \A k \in 1..Len(publishes) :
    CalledBy(publishes[k]) = SubscribedTo(publishes[k].event, publishes[k].after)

\* The text ends inside a quoted field: it holds an odd number of quotes.
RECURSIVE EndsInsideQuotes(_)
EndsInsideQuotes(s) ==
  IF s = <<>> THEN FALSE
  ELSE IF Head(s) = QUOTE THEN ~EndsInsideQuotes(Tail(s))
  ELSE EndsInsideQuotes(Tail(s))

\* C24: every batch that a turn of the read loop hands to the row parser
\* ends on a row boundary: at a newline that is not inside a quoted field.
BatchEndsOnRowBoundary ==
  [][(pc = "reading" /\ pos' > pos) =>
       LET batch == ReadValue(buffer, headerLine, SubSeq(text, pos + 1, pos'))
       IN batch.parse =>
            /\ batch.input[Len(batch.input)] = NEWLINE
            /\ ~EndsInsideQuotes(batch.input)
    ]_vars

\* No newline of the text lies inside a quoted field.
NoQuotedNewline(s) ==
  \A i \in 1..Len(s) : s[i] = NEWLINE => ~EndsInsideQuotes(SubSeq(s, 1, i))

\* The row that made the marker: the first row seen with its identifier
\* that passes the tests of status, attribution and presence.
RowOf(m) ==
  CHOOSE i \in 1..Len(rowsSeen) :
    /\ Get(rowsSeen[i], "pano_id") = m.panoId /\ ~RowFilteredNoDedup(rowsSeen[i], {})
    /\ \A j \in 1..(i - 1) :
         ~(Get(rowsSeen[j], "pano_id") = m.panoId /\ ~RowFilteredNoDedup(rowsSeen[j], {}))

\* C25: the rows handed to processRows so far are, in order, the first
\* rows of the file (for a file with no newline inside a quoted field, whose
\* rows the batches do not cut), and the markers were created in the order
\* of the rows they come from.
RowsInFileOrder ==
  /\ NoQuotedNewline(text) => IsPrefix(rowsSeen, PapaParse(text))
  /\ \A m1, m2 \in Markers : m1.n < m2.n <=> RowOf(m1) < RowOf(m2)

\* C25 witness: a finished load with two markers whose rows came in
\* different batches: the text does not end with a newline, so its last row
\* was flushed when the reader reported done.
TwoMarkersAcrossBatches ==
  /\ pc = "done"
  /\ text[Len(text)] # NEWLINE
  /\ Cardinality(Markers) = 2

\* The text begins with the header line and a newline.
HeaderFirst(input) ==
  /\ Len(input) > Len(HeaderLine)
  /\ SubSeq(input, 1, Len(HeaderLine) + 1) = HeaderLine \o <<NEWLINE>>

\* The header line is held as soon as a newline has arrived, it is the
\* first line of the file, and no row handed to processRows is the header
\* line read as data.
HeaderCaptured ==
  /\ pc \in {"reading", "done"} =>
       (headerLine = Null <=> LastIndexOf(SubSeq(text, 1, pos), NEWLINE) = 0)
  /\ headerLine # Null => headerLine = Str(HeaderLine)
  /\ \A i \in 1..Len(rowsSeen) :
       /\ Get(rowsSeen[i], "pano_lat") # Str(<<"pano_lat">>)
       /\ Get(rowsSeen[i], "pano_id") # Str(<<"pano_id">>)

\* A step keeps a header line once captured, and the batch it hands to the
\* parser, in a turn of the loop or at done, begins with the header line.
HeaderKeptAndPrepended ==
  /\ headerLine # Null => headerLine' = headerLine
  /\ (pc = "reading" /\ pos' > pos) =>
       LET batch == ReadValue(buffer, headerLine, SubSeq(text, pos + 1, pos'))
       IN batch.parse => HeaderFirst(batch.input)
  /\ (pc = "reading" /\ event'.op = "done") =>
       LET batch == ReadDoneFlush(buffer, headerLine)
       IN batch.parse => HeaderFirst(batch.input)

\* C26: the header line is captured once, at the first flush, whatever the
\* fragments are; it is prepended to every batch handed to the parser, the
\* final one included, and is never processed as a data row.
HeaderOnEveryBatch == []HeaderCaptured /\ [][HeaderKeptAndPrepended]_vars

\* C26 witness: a finished load of a text without a final newline whose two
\* rows were parsed, the second in the final batch.
FinalBatchParsed ==
  /\ pc = "done"
  /\ text[Len(text)] # NEWLINE
  /\ headerLine = Str(HeaderLine)
  /\ Len(rowsSeen) = 2
  /\ buffer # <<>>

\* C27: when progress 100 has been reported, every data row of the file,
\* a last row without a final newline included, has been handed to
\* processRows exactly once: the rows seen are the rows of the file.
FinalFlushCompletesRows ==
  progressFill = Hundred => rowsSeen = PapaParse(text)

\* Every per-date count is at least 1 and the counts add up to the number
\* of markers, which is the total size of the year buckets.
CountsMatchMarkers ==
  /\ \A d \in DOMAIN temporalMap : temporalMap[d] >= 1
  /\ TemporalTotal = Cardinality(Markers)
  /\ Cardinality(Markers) = MarkerCount(markersByYear)

\* No per-date count is removed or decreased by a step.
CountsNeverDecrease ==
  \A d \in DOMAIN temporalMap :
    d \in DOMAIN temporalMap' /\ temporalMap'[d] >= temporalMap[d]

\* C28: in every state during and after a load each per-date count is at
\* least 1 and never decreases, and the sum of the per-date counts equals
\* the number of markers and the total size of the year buckets.
OneIncrementPerMarker == []CountsMatchMarkers /\ [][CountsNeverDecrease]_vars

\* The markers of a bucket, by their number of creation, in bucket order.
BucketMembers(byYear, y) == [i \in 1..Len(byYear[y]) |-> byYear[y][i].n]

\* Every marker is in one bucket, once, and it is the bucket of the year of
\* its capture date.
OneBucketPerMarker ==
  /\ \A y \in DOMAIN markersByYear : \A i \in 1..Len(markersByYear[y]) :
       /\ GetFullYear(markersByYear[y][i].captureDate) = y
       /\ \A z \in DOMAIN markersByYear : \A j \in 1..Len(markersByYear[z]) :
            markersByYear[z][j].n = markersByYear[y][i].n => (z = y /\ j = i)
  /\ \A y \in DOMAIN markersByYear : markersByYear[y] # <<>>

\* A step removes no bucket and no marker from a bucket, and a selection
\* handler leaves the members of every bucket as they are.
BucketsKept ==
  /\ \A y \in DOMAIN markersByYear :
       /\ y \in DOMAIN markersByYear'
       /\ IsPrefix(BucketMembers(markersByYear, y), BucketMembers(markersByYear', y))
  /\ event'.op \in {"toggleYear", "chartClick", "chartClickEmpty", "mapClick"} =>
       /\ DOMAIN markersByYear' = DOMAIN markersByYear
       /\ \A y \in DOMAIN markersByYear :
            BucketMembers(markersByYear', y) = BucketMembers(markersByYear, y)

\* C29: every marker belongs to exactly one year bucket, a bucket once
\* created is never removed, and no selection handler (toggleYear, date
\* click, map-background click) adds a marker to a bucket or removes one.
BucketMembershipStable == []OneBucketPerMarker /\ [][BucketsKept]_vars

\* C29 witness: a year has just been switched on from no selection, and a
\* marker of the other bucket is off the map and still in its bucket.
OtherYearHidden ==
  /\ event.op = "toggleYear"
  /\ event.before = {}
  /\ Cardinality(DOMAIN markersByYear) = 2
  /\ \E m \in Markers : ~m.onMap

\* The sequence without its element i.
Without(rows, i) == SubSeq(rows, 1, i - 1) \o SubSeq(rows, i + 1, Len(rows))

\* C30: a row that is skipped because it is not valid (bad date, missing
\* coordinate, wrong status or attribution, missing identifier) does not
\* abort the load and changes no aggregate: when the load has ended, the
\* year buckets, the per-date counts and the markers are those of the same
\* rows without that row, and so is the way the load ended.
SkippedRowChangesNothing ==
  (pc = "done" \/ error = "exception") =>
    \A i \in 1..Len(rowsSeen) :
      ~ValidRow(rowsSeen[i]) =>
        LET here == [markersByYear |-> markersByYear, temporalMap |-> temporalMap]
            absent == ProcessRows(FreshParse, Without(rowsSeen, i))
        IN /\ Aggregates(here) = Aggregates(absent)
           /\ absent.threw <=> error = "exception"

\* C31: on a completed load, after a toggleYear or a click on the map
\* background, at most one year is selected, a row of the legend is rendered
\* active iff its year is the selected one, there is a row for every bucket,
\* and the markers on the map are those of the bucket of the selected year,
\* or all markers when no year is selected.
LegendAndMapShowSelectedYear ==
  (pc = "done" /\ event.op \in {"toggleYear", "mapClick"}) =>
    /\ Cardinality(activeYears) <= 1
    /\ DOMAIN legend = DOMAIN markersByYear
    /\ \A y \in DOMAIN legend : legend[y].active <=> activeYears = {y}
    /\ \A y \in DOMAIN markersByYear : \A i \in 1..Len(markersByYear[y]) :
         markersByYear[y][i].onMap <=> (activeYears = {} \/ activeYears = {y})

\* C31 witness: on a completed load toggleYear(2020) has run while 2021 was
\* selected; 2020 is rendered active and the marker of 2021 is off the map.
SelectedYearReplaced ==
  /\ pc = "done"
  /\ event.op = "toggleYear"
  /\ event.year = 2020
  /\ event.before = {2021}
  /\ legend[2020].active /\ ~legend[2021].active
  /\ \A i \in 1..Len(markersByYear[2021]) : ~markersByYear[2021][i].onMap

\* C33: while a year is selected only the markers of its bucket are on the
\* map, in every state, the states of a load in flight included.
OnlySelectedYearOnMap ==
  \A y \in activeYears :
    \A z \in DOMAIN markersByYear : \A i \in 1..Len(markersByYear[z]) :
      markersByYear[z][i].onMap => z = y

\* The sum of the counts of the rows of the legend.
LegendTotal ==
  LET RECURSIVE Sum(_)
      Sum(ys) == IF ys = {} THEN 0
                 ELSE LET y == CHOOSE z \in ys : TRUE
                      IN legend[y].count + Sum(ys \ {y})
  IN Sum(DOMAIN legend)

\* C37: after a successful load the total of panoramas shown in the legend
\* (totalPanosGlobal) is the number of markers created, which is the sum of
\* the counts of the rows of the legend, for every input table.
TotalIsMarkerCount ==
  pc = "done" =>
    /\ totalPanosGlobal = Cardinality(Markers)
    /\ totalPanosGlobal = LegendTotal

\* C40: for every accepted record the key of the year bucket that holds its
\* marker is the year component of the date key under which the record is
\* counted in the temporal aggregate, whatever the time-zone offset of the
\* client.
BucketYearIsDateKeyYear ==
  \A y \in DOMAIN markersByYear : \A i \in 1..Len(markersByYear[y]) :
    /\ markersByYear[y][i].captureDate.iso \in DOMAIN temporalMap
    /\ y = GetUTCFullYear(markersByYear[y][i].captureDate)

\* loadData has returned or has left through its catch block.
Ended == pc \in {"done", "failed", "returned"}

\* C39: every run of loadData ends, given that the byte stream ends or
\* fails in the end, and whenever it has ended (success, HTTP error, decode
\* error, no match of the resolver, missing parameters) the progress
\* container is hidden.
RunEndsWithProgressHidden ==
  /\ <>Ended
  /\ [](Ended => progressContainer = "none")

\* C39 witness: the body broke off after a first batch had been read; the
\* load has ended in the catch block and the container, shown since the
\* start of the load, is hidden.
EndedOnDecodeError ==
  /\ pc = "failed"
  /\ error = "decode"
  /\ pos > 0
  /\ progressContainer = "none"

\* The markers that a load of the file leaves on the map when it succeeds.
MarkersOf(file) == AddMarkers(FilterValidData(CityFiles[file]), <<>>).markers

Succeeds(i) == calls[i].outcome = "pending" /\ calls'[i].outcome = "ok"

\* C32: the markers are destroyed only when the load of a new dataset
\* begins, and then all of them: a step in which a call of loadSelectedCity
\* succeeds leaves on the map the markers of its dataset and no other, and
\* any other step, the failure of a load included, leaves the markers as
\* they were.
MarkersReplacedOnSuccessOnly ==
  [][/\ \A i \in DOMAIN calls : Succeeds(i) => markers' = MarkersOf(calls[i].file)
     /\ (\A i \in DOMAIN calls : ~Succeeds(i)) => markers' = markers]_vars

\* C34: when two or more calls of loadSelectedCity have all finished with
\* success, the markers on the map are those of the dataset requested
\* last, in whatever order the fetches completed.
LastRequestedShown ==
  (/\ Len(calls) >= 2
   /\ \A i \in DOMAIN calls : calls[i].pc = "finished" /\ calls[i].outcome = "ok")
    => markers = MarkersOf(calls[Len(calls)].file)

\* C35: the loading indicator is visible whenever a call of
\* loadSelectedCity is in flight, and hidden when every call has finished.
LoadingWhileInFlight ==
  (\E i \in DOMAIN calls : calls[i].pc # "finished") <=> loading = "flex"

\* C36: after any number of loads each view has at most one subscriber per
\* event, a click on a marker or on a bar makes each view apply the
\* highlight once, and a click on the background of the map, once a load
\* has succeeded, publishes highlightReset once.
OneSubscriberPerView ==
  /\ \A name \in EventNames, v \in Views : SubscribersOf(name, v) <= 1
  /\ clicked.op \in {"markerClick", "barClick"} => \A v \in Views : clicked.applied[v] = 1
  /\ clicked.op = "backgroundClick" /\ clicked.handlers > 0 => clicked.published = 1

\* C38: on the overview page at most one row of the legend is marked
\* selected, and whenever a row is, the rectangles and the points of both
\* charts are highlighted for its age: those of the cities of that age
\* carry the highlighted style, the others the dimmed one.
LegendSelectionHighlighted ==
  /\ Cardinality(legendSelected) <= 1
  /\ \A age \in legendSelected : \A i \in 1..Len(overviewCities) :
       /\ mapRectangles[i].fillOpacity = (IF Floor(overviewCities[i]) = age THEN 80 ELSE 10)
       /\ \A c \in DOMAIN charts :
            charts[c][i] = (IF Floor(overviewCities[i]) = age
                            THEN PointHighlighted ELSE PointDimmed)

====
